---- MODULE Spec2Model ----
(***************************************************************************)
(* Workspace reconciliation engine of WorkspacesService                    *)
(* (src/modules/Workspaces/WorkspacesLib/WorkspacesService.cpp).           *)
(*                                                                         *)
(* The service receives a workspace id over IPC (OnIPCMessage), loads the  *)
(* workspace and runs the four-phase sequence of                           *)
(* ExecuteWorkspaceSequence: minimize unmanaged windows, move existing     *)
(* windows, launch missing applications, place new windows.                *)
(***************************************************************************)
EXTENDS Integers, Sequences, FiniteSets, TLC

VARIABLES
    m_processing,       \* the single-flight latch
    m_launchingStatus,  \* the status tracker of the last request
    m_launchErrors,     \* the launch errors of the last request
    desktop,            \* the windows on the desktop, in enumeration order
    pending,            \* started processes that have not shown a window yet
    nextHwnd,           \* the handle the next new window gets
    pc,                 \* where each IPC thread is in OnIPCMessage
    result,             \* how the last OnIPCMessage of each thread ended
    loc,                \* the locals of the request each thread runs
    nSubmits,           \* messages received so far
    minimizeCalls,      \* windows Phase 1 of the running request minimized
    call,               \* the last call of a unit on its own: arguments and return value
    service             \* m_enabled, m_shouldStop and whether m_ipcHelper exists

(***************************************************************************)
(* Bounds of the model.                                                    *)
(***************************************************************************)
\* number of OnIPCMessage invocations explored (accepted and rejected)
MaxSubmits == 2
\* number of IPC threads that may deliver a message at the same time
NumCallers == 2
\* poll sleeps of Phase 4 followed one by one, before the clock is read late
MaxPlacePolls == 2
\* processes the launcher starts, over all requests
MaxProcesses == 2

Callers == 1..NumCallers

(***************************************************************************)
(* Program constants.                                                      *)
(***************************************************************************)
\* LaunchMissingApplicationsAdvanced
LaunchMaxWaitTimeMs == 2000
LaunchPollIntervalMs == 50
LaunchSettleMs == 500
\* ProcessNewWindowsAdvanced
PlaceMaxWaitTimeMs == 5000
PlacePollIntervalMs == 50
\* MinimizeUnmanagedWindowsParallel
MaxThreads == 4
\* GetNearestWindow::calculateDistance
PenaltyBothNormal == 1
PenaltyOneMinimized == 10000

(***************************************************************************)
(* Data: paths, applications, windows.                                     *)
(* A path is kept in the three parts std::filesystem::path splits it into. *)
(***************************************************************************)
Path(parent, stem, ext) == [parent |-> parent, stem |-> stem, ext |-> ext]
EmptyPath == Path("", "", "")

\* std::filesystem::path::stem / filename / parent_path
Stem(p) == p.stem
Filename(p) == <<p.stem, p.ext>>
\* a plain name (package full name, AUMID) as the first member of an error
\* entry, in the form Filename gives
PlainName(s) == <<s, "">>
ParentPath(p) == p.parent

\* ::towlower over the process names that occur
ToLower(s) ==
    CASE s = "MSEDGE" -> "msedge"
      [] s = "MsEdge" -> "msedge"
      [] s = "Chrome" -> "chrome"
      [] s = "CHROME" -> "chrome"
      [] s = "A" -> "a"
      [] s = "B" -> "b"
      [] s = "Y" -> "y"
      [] s = "Other" -> "other"
      [] OTHER -> s

Position(x, y, w, h) == [x |-> x, y |-> y, width |-> w, height |-> h]
Rect(l, t, r, b) == [left |-> l, top |-> t, right |-> r, bottom |-> b]

\* WorkspacesData::WorkspacesProject::Application
Application(name, path, aumid, pkg, pwa, version, args, elevated, minimized, maximized, pos) ==
    [name |-> name, path |-> path, appUserModelId |-> aumid,
     packageFullName |-> pkg, pwaAppId |-> pwa, version |-> version,
     commandLineArgs |-> args, isElevated |-> elevated,
     isMinimized |-> minimized, isMaximized |-> maximized, position |-> pos]

\* A top-level window as the window-system facade shows it.
Window(hwnd, path, aumid, popup, showCmd, rect) ==
    [hwnd |-> hwnd, processPath |-> path, aumid |-> aumid, popup |-> popup,
     showCmd |-> showCmd, rect |-> rect]

NullHwnd == 0

\* Utils::PwaHelper::GetEdgeAppId / GetChromeAppId: std::optional as a
\* sequence of length 0 or 1
GetEdgeAppId(aumid) ==
    CASE aumid = "edge.pwa.xyz" -> <<"xyz">>
      [] aumid = "edge.pwa.abc" -> <<"abc">>
      [] OTHER -> <<>>

GetChromeAppId(aumid) ==
    CASE aumid = "chrome.pwa.xyz" -> <<"xyz">>
      [] OTHER -> <<>>

(***************************************************************************)
(* Application Identity Matcher.                                           *)
(***************************************************************************)
\* the PWA branch shared by the three copies of the matching logic
PwaMatch(processName, windowAumid, app) ==
    /\ app.pwaAppId # ""
    /\ LET processNameLower == ToLower(processName)
       IN  /\ processNameLower \in {"msedge", "chrome"}
           /\ LET pwaAppId == IF processNameLower = "msedge"
                                THEN GetEdgeAppId(windowAumid)
                                ELSE GetChromeAppId(windowAumid)
              IN  pwaAppId # <<>> /\ pwaAppId[1] = app.pwaAppId

\* rule 3 of the matcher dropped: the process-name fallback is missing
IsWindowMatchApp_NoName(w, app) ==
    IF w.processPath = EmptyPath
    THEN FALSE
    ELSE LET processName == Stem(w.processPath)
             windowAumid == w.aumid
         IN  \/ (windowAumid # "" /\ app.appUserModelId # "" /\ app.appUserModelId = windowAumid)
             \/ app.path = w.processPath
             \/ PwaMatch(processName, windowAumid, app)

\* a matcher that looks at the request: a window already in the moved set
\* of a request is never matched again
IsWindowMatchApp_SkipsMoved(w, app) ==
    IF \/ w.processPath = EmptyPath
       \/ (\E c \in Callers : \E i \in 1..Len(loc[c].movedWindows) : loc[c].movedWindows[i] = w.hwnd)
    THEN FALSE
    ELSE LET processName == Stem(w.processPath)
             windowAumid == w.aumid
         IN  \/ (windowAumid # "" /\ app.appUserModelId # "" /\ app.appUserModelId = windowAumid)
             \/ app.path = w.processPath
             \/ app.name = processName
             \/ PwaMatch(processName, windowAumid, app)

IsWindowMatchApp(w, app) ==
    IF w.processPath = EmptyPath
    THEN FALSE
    ELSE LET processName == Stem(w.processPath)
             windowAumid == w.aumid
         IN  \/ (windowAumid # "" /\ app.appUserModelId # "" /\ app.appUserModelId = windowAumid)
             \/ app.path = w.processPath
             \/ app.name = processName
             \/ PwaMatch(processName, windowAumid, app)

\* the protection check of Phase 1 without the process-name fallback
IsWindowInAppList_NoName(w, apps) ==
    IF w.popup
    THEN TRUE
    ELSE IF w.processPath = EmptyPath
    THEN FALSE
    ELSE LET processName == Stem(w.processPath)
             windowAumid == w.aumid
         IN  \E i \in 1..Len(apps) :
                LET app == apps[i]
                IN  \/ (windowAumid # "" /\ app.appUserModelId # "" /\ app.appUserModelId = windowAumid)
                    \/ app.path = w.processPath
                    \/ PwaMatch(processName, windowAumid, app)

\* a protection check that looks at the first application only
IsWindowInAppList_FirstApp(w, apps) ==
    IF w.popup
    THEN TRUE
    ELSE IF w.processPath = EmptyPath \/ apps = <<>>
    THEN FALSE
    ELSE IsWindowMatchApp(w, apps[1])

IsWindowInAppList(w, apps) ==
    IF w.popup
    THEN TRUE
    ELSE IF w.processPath = EmptyPath
    THEN FALSE
    ELSE LET processName == Stem(w.processPath)
             windowAumid == w.aumid
         IN  \E i \in 1..Len(apps) :
                LET app == apps[i]
                IN  \/ (windowAumid # "" /\ app.appUserModelId # "" /\ app.appUserModelId = windowAumid)
                    \/ app.path = w.processPath
                    \/ app.name = processName
                    \/ PwaMatch(processName, windowAumid, app)

(***************************************************************************)
(* The desktop: the windows WindowEnumerator::Enumerate returns, in        *)
(* enumeration order.                                                      *)
(***************************************************************************)
Range(seq) == {seq[i] : i \in 1..Len(seq)}

Contains(seq, x) == \E i \in 1..Len(seq) : seq[i] = x

\* WindowEnumerator::Enumerate(WindowFilter::Filter): the handles, in order
Enumerate(desk) == [i \in 1..Len(desk) |-> desk[i].hwnd]

WindowOf(desk, hwnd) == desk[CHOOSE i \in 1..Len(desk) : desk[i].hwnd = hwnd]

ReplaceWindow(desk, w) == [i \in 1..Len(desk) |-> IF desk[i].hwnd = w.hwnd THEN w ELSE desk[i]]

Abs(x) == IF x < 0 THEN -x ELSE x

(***************************************************************************)
(* Nearest-Window Selector.                                                *)
(***************************************************************************)
\* a distance that takes the saved width and height for the right and
\* bottom edges
calculateDistance_SizeForEdge(app, w) ==
    IF app.isMinimized /\ w.showCmd = "minimized"
    THEN 0
    ELSE LET placementPenalty == IF app.isMinimized \/ w.showCmd = "minimized"
                                 THEN PenaltyOneMinimized
                                 ELSE PenaltyBothNormal
         IN  placementPenalty
             + Abs(app.position.x - w.rect.left)
             + Abs(app.position.y - w.rect.top)
             + Abs(app.position.width - w.rect.right)
             + Abs(app.position.height - w.rect.bottom)

calculateDistance(app, w) ==
    IF app.isMinimized /\ w.showCmd = "minimized"
    THEN 0
    ELSE LET placementPenalty == IF app.isMinimized \/ w.showCmd = "minimized"
                                 THEN PenaltyOneMinimized
                                 ELSE PenaltyBothNormal
         IN  placementPenalty
             + Abs(app.position.x - w.rect.left)
             + Abs(app.position.y - w.rect.top)
             + Abs(app.position.x + app.position.width - w.rect.right)
             + Abs(app.position.y + app.position.height - w.rect.bottom)

\* the candidate test of the selector with the moved-windows check left out
IsCandidate_IgnoreMoved(w, app, movedWindows) ==
    /\ ~w.popup
    /\ w.processPath # EmptyPath
    /\ LET processName == Stem(w.processPath)
           windowAumid == w.aumid
       IN  \/ (windowAumid # "" /\ app.appUserModelId # "" /\ app.appUserModelId = windowAumid)
           \/ app.path = w.processPath
           \/ app.name = processName
           \/ PwaMatch(processName, windowAumid, app)

\* the skips and the inlined match of the loop body of GetNearestWindow
IsCandidate(w, app, movedWindows) ==
    /\ ~w.popup
    /\ ~Contains(movedWindows, w.hwnd)
    /\ w.processPath # EmptyPath
    /\ LET processName == Stem(w.processPath)
           windowAumid == w.aumid
       IN  \/ (windowAumid # "" /\ app.appUserModelId # "" /\ app.appUserModelId = windowAumid)
           \/ app.path = w.processPath
           \/ app.name = processName
           \/ PwaMatch(processName, windowAumid, app)

NoWindow == [found |-> FALSE, window |-> NullHwnd, distance |-> 0]

\* a loop that lets a later window of equal distance replace the nearest
RECURSIVE NearestFrom_LastOfEqual(_, _, _, _, _)
NearestFrom_LastOfEqual(desk, i, app, movedWindows, nearest) ==
    IF i > Len(desk)
    THEN nearest
    ELSE LET w == desk[i]
         IN  IF IsCandidate(w, app, movedWindows)
             THEN LET currentDistance == calculateDistance(app, w)
                  IN  IF ~nearest.found \/ currentDistance <= nearest.distance
                      THEN NearestFrom_LastOfEqual(desk, i + 1, app, movedWindows,
                                                   [found |-> TRUE, window |-> w.hwnd,
                                                    distance |-> currentDistance])
                      ELSE NearestFrom_LastOfEqual(desk, i + 1, app, movedWindows, nearest)
             ELSE NearestFrom_LastOfEqual(desk, i + 1, app, movedWindows, nearest)

RECURSIVE NearestFrom(_, _, _, _, _)
NearestFrom(desk, i, app, movedWindows, nearest) ==
    IF i > Len(desk)
    THEN nearest
    ELSE LET w == desk[i]
         IN  IF IsCandidate(w, app, movedWindows)
             THEN LET currentDistance == calculateDistance(app, w)
                  IN  IF ~nearest.found \/ currentDistance < nearest.distance
                      THEN NearestFrom(desk, i + 1, app, movedWindows,
                                       [found |-> TRUE, window |-> w.hwnd,
                                        distance |-> currentDistance])
                      ELSE NearestFrom(desk, i + 1, app, movedWindows, nearest)
             ELSE NearestFrom(desk, i + 1, app, movedWindows, nearest)

GetNearestWindow(app, movedWindows, desk) == NearestFrom(desk, 1, app, movedWindows, NoWindow)

(***************************************************************************)
(* Monitors and the Window Placer.                                         *)
(***************************************************************************)
Monitor(rcMonitor, rcWork) == [rcMonitor |-> rcMonitor, rcWork |-> rcWork]

\* the primary monitor has its task bar on top and on the left; the second
\* monitor has none
PrimaryMonitor == Monitor(Rect(0, 0, 1920, 1080), Rect(8, 40, 1920, 1080))
SecondMonitor == Monitor(Rect(1920, 0, 3840, 1080), Rect(1920, 0, 3840, 1080))
Monitors == <<PrimaryMonitor, SecondMonitor>>

Max(a, b) == IF a > b THEN a ELSE b
Min(a, b) == IF a < b THEN a ELSE b

IntersectArea(r, m) ==
    LET w == Min(r.right, m.right) - Max(r.left, m.left)
        h == Min(r.bottom, m.bottom) - Max(r.top, m.top)
    IN  IF w > 0 /\ h > 0 THEN w * h ELSE 0

\* MonitorFromRect(&rect, MONITOR_DEFAULTTOPRIMARY)
MonitorFromRect(r) ==
    LET hit == {i \in 1..Len(Monitors) : IntersectArea(r, Monitors[i].rcMonitor) > 0}
    IN  IF hit = {}
        THEN PrimaryMonitor
        ELSE Monitors[CHOOSE i \in hit :
                 \A j \in hit :
                     \/ IntersectArea(r, Monitors[i].rcMonitor) > IntersectArea(r, Monitors[j].rcMonitor)
                     \/ (IntersectArea(r, Monitors[i].rcMonitor) = IntersectArea(r, Monitors[j].rcMonitor)
                         /\ i <= j)]

TargetRect(app) ==
    Rect(app.position.x, app.position.y,
         app.position.x + app.position.width, app.position.y + app.position.height)

\* a translation that shifts the origin and leaves the far edges
screenToWorkAreaCoords_OriginOnly(monitor, r) ==
    LET xOffset == monitor.rcWork.left - monitor.rcMonitor.left
        yOffset == monitor.rcWork.top - monitor.rcMonitor.top
    IN  Rect(r.left - xOffset, r.top - yOffset, r.right, r.bottom)

\* screen coordinates to work-area coordinates
screenToWorkAreaCoords(monitor, r) ==
    LET xOffset == monitor.rcWork.left - monitor.rcMonitor.left
        yOffset == monitor.rcWork.top - monitor.rcMonitor.top
    IN  Rect(r.left - xOffset, r.top - yOffset, r.right - xOffset, r.bottom - yOffset)

\* What the window system answers to the calls of one placement.
PlacerOutcomes == [minimize : BOOLEAN, setpos : BOOLEAN, maximize : BOOLEAN]

\* ShowWindow(SW_FORCEMINIMIZE), ShowWindow(SW_SHOWNOACTIVATE),
\* SetWindowPos, ShowWindow(SW_MAXIMIZE) on a window. ShowWindow changes the
\* show state whatever it returns; SetWindowPos moves only when it succeeds.
ForceMinimize(w) == [w EXCEPT !.showCmd = "minimized"]
ShowNoActivate(w) == [w EXCEPT !.showCmd = "normal"]
SetWindowPos(w, r, ok) == IF ok THEN [w EXCEPT !.rect = r] ELSE w
Maximize(w) == [w EXCEPT !.showCmd = "maximized"]

Placed(ok, w, calls) == [ok |-> ok, win |-> w, calls |-> calls]

\* Phase 2 placer
MoveWindowToPosition(w, app, out) ==
    LET targetRect == TargetRect(app)
        targetMonitor == MonitorFromRect(targetRect)
    IN  IF app.isMinimized
        THEN Placed(out.minimize, ForceMinimize(w), <<"minimize">>)
        ELSE LET adjustedRect == screenToWorkAreaCoords(targetMonitor, targetRect)
                 shown == ShowNoActivate(w)
                 moved == SetWindowPos(shown, adjustedRect, out.setpos)
             IN  IF app.isMaximized
                 THEN IF ~out.setpos
                      THEN Placed(FALSE, moved, <<"show", "setpos">>)
                      ELSE Placed(out.maximize, Maximize(moved),
                                  <<"show", "setpos", "maximize">>)
                 ELSE Placed(out.setpos, moved, <<"show", "setpos">>)

\* a Phase 4 placer that shows the window before it minimizes it
MoveWindowWithStateHandling_ShowsFirst(w, app, out) ==
    LET targetRect == TargetRect(app)
        targetMonitor == MonitorFromRect(targetRect)
        adjustedRect == screenToWorkAreaCoords(targetMonitor, targetRect)
        shown == ShowNoActivate(w)
        moved == SetWindowPos(shown, adjustedRect, out.setpos)
    IN  IF app.isMinimized
        THEN Placed(out.minimize, ForceMinimize(shown), <<"show", "minimize">>)
        ELSE IF ~app.isMaximized
        THEN Placed(out.setpos, moved, <<"show", "setpos">>)
        ELSE Placed(out.maximize, Maximize(moved), <<"show", "setpos", "maximize">>)

\* Phase 4 placer
MoveWindowWithStateHandling(w, app, out) ==
    LET targetRect == TargetRect(app)
        targetMonitor == MonitorFromRect(targetRect)
    IN  IF app.isMinimized
        THEN Placed(out.minimize, ForceMinimize(w), <<"minimize">>)
        ELSE LET adjustedRect == screenToWorkAreaCoords(targetMonitor, targetRect)
                 shown == ShowNoActivate(w)
                 moved == SetWindowPos(shown, adjustedRect, out.setpos)
             IN  IF ~app.isMaximized
                 THEN Placed(out.setpos, moved, <<"show", "setpos">>)
                 ELSE Placed(out.maximize, Maximize(moved),
                             <<"show", "setpos", "maximize">>)

(***************************************************************************)
(* Application Launcher.                                                   *)
(***************************************************************************)
\* What the operating system answers to the calls of one LaunchApp.
OsOutcomes == [createProcess : BOOLEAN, shellExecute : BOOLEAN]
OsFails == [createProcess |-> FALSE, shellExecute |-> FALSE]

\* Result { success, error } of the anonymous-namespace LaunchApp
LaunchApp(appPath, commandLineArgs, elevated, os) ==
    IF ~elevated /\ os.createProcess
    THEN [success |-> TRUE, error |-> ""]
    ELSE IF ~os.shellExecute
    THEN [success |-> FALSE, error |-> "os error"]
    ELSE [success |-> TRUE, error |-> ""]

\* What the package manager does for one LaunchPackagedApp.
PackageOutcomes == {"launched", "refused", "nomatch", "noentries", "throws"}

\* LaunchPackagedApp: the result and the errors it appends
LaunchPackagedApp(packageFullName, launchErrors, pkg) ==
    CASE pkg = "launched" -> [launched |-> TRUE, errors |-> launchErrors]
      [] pkg = "refused" -> [launched |-> FALSE, errors |-> launchErrors]
      [] pkg = "nomatch" -> [launched |-> FALSE, errors |-> launchErrors]
      [] pkg = "noentries" ->
            [launched |-> FALSE,
             errors |-> Append(launchErrors,
                               <<PlainName(packageFullName), "No app entries found for the package.">>)]
      [] OTHER ->
            [launched |-> FALSE,
             errors |-> Append(launchErrors, <<PlainName(packageFullName), "exception">>)]

\* app.appUserModelId.find(L"steam:") != npos
ContainsSteamProtocol(aumid) == aumid \in {"steam://rungameid/1", "app!steam:x"}

\* std::stoi(app.version), 0 when it throws
ParseVersion(version) ==
    CASE version = "" -> 0
      [] version = "0" -> 0
      [] version = "1" -> 1
      [] version = "2" -> 2
      [] OTHER -> 0

\* the files GetFileAttributesW finds
ExistingFiles ==
    { Path("C:", "A", ".exe"), Path("C:", "B", ".exe"), Path("D:", "A", ".exe"),
      Path("C:", "Other", ".exe"),
      Path("C:\\Edge", "msedge", ".exe"), Path("C:\\Edge", "msedge_proxy", ".exe"),
      Path("C:\\Chrome", "chrome", ".exe") }

FileExists(path) == path \in ExistingFiles

\* the outcomes of the environment during one LaunchAppWithFullLogic
LaunchEnvs ==
    [direct : OsOutcomes, protocol : OsOutcomes, package : PackageOutcomes,
     pwa : OsOutcomes, exe : OsOutcomes]

\* the state of LaunchAppWithFullLogic between its strategies
LaunchStep(launched, errors, attempts) ==
    [launched |-> launched, errors |-> errors, attempts |-> attempts]

\* a direct launch guarded by the app-user-model-id alone
TryPackagedDirect_AumidOnly(app, st, env) ==
    IF app.appUserModelId # ""
    THEN LET res == LaunchApp(<<"shell:AppsFolder", app.appUserModelId>>,
                              app.commandLineArgs, app.isElevated, env.direct)
         IN  IF res.success
             THEN LaunchStep(TRUE, st.errors, Append(st.attempts, "direct"))
             ELSE LaunchStep(FALSE, Append(st.errors, <<Filename(app.path), res.error>>),
                             Append(st.attempts, "direct"))
    ELSE st

TryPackagedDirect(app, st, env) ==
    IF app.packageFullName # "" /\ app.appUserModelId # ""
    THEN LET res == LaunchApp(<<"shell:AppsFolder", app.appUserModelId>>,
                              app.commandLineArgs, app.isElevated, env.direct)
         IN  IF res.success
             THEN LaunchStep(TRUE, st.errors, Append(st.attempts, "direct"))
             ELSE LaunchStep(FALSE, Append(st.errors, <<Filename(app.path), res.error>>),
                             Append(st.attempts, "direct"))
    ELSE st

\* a protocol launch that is tried even after the direct launch succeeded
TryProtocol_AfterSuccess(app, st, env) ==
    IF app.appUserModelId # "" /\ ContainsSteamProtocol(app.appUserModelId)
    THEN LET res == LaunchApp(app.appUserModelId, app.commandLineArgs, app.isElevated,
                              env.protocol)
         IN  IF res.success
             THEN LaunchStep(TRUE, st.errors, Append(st.attempts, "protocol"))
             ELSE LaunchStep(st.launched, Append(st.errors, <<Filename(app.path), res.error>>),
                             Append(st.attempts, "protocol"))
    ELSE st

TryProtocol(app, st, env) ==
    IF ~st.launched /\ app.appUserModelId # "" /\ ContainsSteamProtocol(app.appUserModelId)
    THEN LET res == LaunchApp(app.appUserModelId, app.commandLineArgs, app.isElevated,
                              env.protocol)
         IN  IF res.success
             THEN LaunchStep(TRUE, st.errors, Append(st.attempts, "protocol"))
             ELSE LaunchStep(FALSE, Append(st.errors, <<Filename(app.path), res.error>>),
                             Append(st.attempts, "protocol"))
    ELSE st

TryPackageManager(app, st, env) ==
    IF ~st.launched /\ app.packageFullName # "" /\ app.commandLineArgs = "" /\ ~app.isElevated
    THEN LET res == LaunchPackagedApp(app.packageFullName, st.errors, env.package)
         IN  LaunchStep(res.launched, res.errors, Append(st.attempts, "package"))
    ELSE st

TryPwaDirect(app, st, env) ==
    IF ~st.launched /\ app.pwaAppId # ""
       /\ ParseVersion(app.version) >= 1 /\ app.appUserModelId # ""
    THEN LET res == LaunchApp(<<"shell:AppsFolder", app.appUserModelId>>,
                              app.commandLineArgs, app.isElevated, env.pwa)
         IN  IF res.success
             THEN LaunchStep(TRUE, st.errors, Append(st.attempts, "pwa"))
             ELSE LaunchStep(FALSE, Append(st.errors, <<PlainName(app.appUserModelId), res.error>>),
                             Append(st.attempts, "pwa"))
    ELSE st

\* appPathFinal after the PWA proxy substitution
AppPathFinal(app, st) ==
    IF ~st.launched /\ app.pwaAppId # ""
    THEN IF Filename(app.path) = <<"msedge", ".exe">>
         THEN Path(ParentPath(app.path), "msedge_proxy", ".exe")
         ELSE IF Filename(app.path) = <<"chrome", ".exe">>
         THEN Path(ParentPath(app.path), "chrome_proxy", ".exe")
         ELSE app.path
    ELSE app.path

\* commandLineArgsFinal after the PWA proxy substitution
CommandLineArgsFinal(app, st) ==
    IF ~st.launched /\ app.pwaAppId # ""
       /\ Filename(app.path) \in {<<"msedge", ".exe">>, <<"chrome", ".exe">>}
    THEN <<"--profile-directory=Default --app-id=", app.pwaAppId, " ", app.commandLineArgs>>
    ELSE <<app.commandLineArgs>>

\* the executable fallback that forgets the error of a missing file
TryExecutable_SilentMissingFile(app, st, appPathFinal, commandLineArgsFinal, env) ==
    IF ~st.launched
    THEN IF ~FileExists(appPathFinal)
         THEN LaunchStep(FALSE, st.errors, Append(st.attempts, "exe"))
         ELSE LET res == LaunchApp(appPathFinal, commandLineArgsFinal, app.isElevated, env.exe)
              IN  IF res.success
                  THEN LaunchStep(TRUE, st.errors, Append(st.attempts, "exe"))
                  ELSE LaunchStep(FALSE, Append(st.errors, <<Filename(appPathFinal), res.error>>),
                                  Append(st.attempts, "exe"))
    ELSE st

TryExecutable(app, st, appPathFinal, commandLineArgsFinal, env) ==
    IF ~st.launched
    THEN IF ~FileExists(appPathFinal)
         THEN LaunchStep(FALSE, Append(st.errors, <<Filename(appPathFinal), "File not found">>),
                         Append(st.attempts, "exe"))
         ELSE LET res == LaunchApp(appPathFinal, commandLineArgsFinal, app.isElevated, env.exe)
              IN  IF res.success
                  THEN LaunchStep(TRUE, st.errors, Append(st.attempts, "exe"))
                  ELSE LaunchStep(FALSE, Append(st.errors, <<Filename(appPathFinal), res.error>>),
                                  Append(st.attempts, "exe"))
    ELSE st

LaunchAppWithFullLogic(app, launchErrors, env) ==
    LET s0 == LaunchStep(FALSE, launchErrors, <<>>)
        s1 == TryPackagedDirect(app, s0, env)
        s2 == TryProtocol(app, s1, env)
        s3 == TryPackageManager(app, s2, env)
        s4 == TryPwaDirect(app, s3, env)
    IN  TryExecutable(app, s4, AppPathFinal(app, s4), CommandLineArgsFinal(app, s4), env)

\* the outcomes that make a difference for this application: the answers to
\* calls LaunchAppWithFullLogic cannot make for it are fixed
LaunchEnvsFor(app) ==
    { env \in LaunchEnvs :
        /\ (app.packageFullName = "" \/ app.appUserModelId = "") => env.direct = OsFails
        /\ ~ContainsSteamProtocol(app.appUserModelId) => env.protocol = OsFails
        /\ (app.packageFullName = "" \/ app.commandLineArgs # "" \/ app.isElevated)
              => env.package = "nomatch"
        /\ (app.pwaAppId = "" \/ app.appUserModelId = "") => env.pwa = OsFails }

(***************************************************************************)
(* Launch Status Tracker (LaunchingStatus).                                *)
(***************************************************************************)
LaunchingAppState(app, window, state) ==
    [application |-> app, window |-> window, state |-> state]

\* the tracker before the first request: m_launchingStatus is null
NullProject == [id |-> "", name |-> "", apps |-> <<>>, moveExistingWindows |-> FALSE]

NullStatus == [project |-> NullProject, appsState |-> <<>>]

NewLaunchingStatus(project) ==
    [project |-> project,
     appsState |-> [a \in Range(project.apps) |-> LaunchingAppState(a, NullHwnd, "Waiting")]]

AllLaunchedAndMoved(ls) ==
    \A a \in DOMAIN ls.appsState : ls.appsState[a].state = "LaunchedAndMoved"

AllLaunched(ls) ==
    \A a \in DOMAIN ls.appsState : ls.appsState[a].state \in {"Launched", "LaunchedAndMoved"}

AllInstancesOfTheAppLaunchedAndMoved(ls, app) ==
    \A a \in DOMAIN ls.appsState : a = app => ls.appsState[a].state = "LaunchedAndMoved"

\* the applications GetNext(state) may return
NextInState(ls, state) == {a \in DOMAIN ls.appsState : ls.appsState[a].state = state}

IsWindowProcessed(ls, hwnd) == \E a \in DOMAIN ls.appsState : ls.appsState[a].window = hwnd

UpdateState(ls, app, state) ==
    IF app \in DOMAIN ls.appsState
    THEN [ls EXCEPT !.appsState[app].state = state]
    ELSE ls

UpdateWindow(ls, app, hwnd, state) ==
    IF app \in DOMAIN ls.appsState
    THEN [ls EXCEPT !.appsState[app].state = state, !.appsState[app].window = hwnd]
    ELSE ls

Cancel(ls) ==
    [ls EXCEPT !.appsState =
        [a \in DOMAIN ls.appsState |->
            IF ls.appsState[a].state \in {"Waiting", "Launched"}
            THEN [ls.appsState[a] EXCEPT !.state = "Canceled"]
            ELSE ls.appsState[a]]]

(***************************************************************************)
(* The stored workspaces, the ids clients send and the desktops a run      *)
(* starts from.                                                            *)
(***************************************************************************)
P1 == Position(100, 100, 800, 600)
P2 == Position(2000, 100, 800, 600)

PathA == Path("C:", "A", ".exe")
PathB == Path("C:", "B", ".exe")
PathY == Path("C:", "Y", ".exe")

AppA1 == Application("A", PathA, "", "", "", "", "", FALSE, FALSE, FALSE, P1)
AppA2 == Application("A", PathA, "", "", "", "", "", FALSE, FALSE, FALSE, P2)
AppB == Application("B", PathB, "", "", "", "", "", FALSE, FALSE, TRUE, P1)
AppY == Application("Y", PathY, "", "", "", "", "", FALSE, FALSE, FALSE, P2)
\* a packaged application, stored minimized
AppAMin == Application("A", PathA, "Pkg.A!App", "Pkg.A_1.0", "", "", "", FALSE, TRUE, FALSE, P1)

Project(id, name, apps, moveExisting) ==
    [id |-> id, name |-> name, apps |-> apps, moveExistingWindows |-> moveExisting]

\* the workspaces file and the temp workspaces file
MainStore ==
    << Project("ws_dup", "duplicates", <<AppA1, AppA2>>, TRUE),
       Project("ws_xy", "valid and missing", <<AppB, AppY>>, FALSE),
       Project("ws_empty", "empty", <<>>, TRUE) >>

TempStore == Project("ws_tmp", "temp", <<AppAMin, AppB>>, TRUE)

WorkspaceIds == {"ws_dup", "ws_xy", "ws_empty", "ws_tmp", "ws_unknown"}

\* LoadWorkspace: the main store first, then the temp store; each read may
\* fail. The result keeps an empty id when nothing is found.
RECURSIVE FindInStore(_, _, _)
FindInStore(store, i, workspaceId) ==
    IF i > Len(store)
    THEN NullProject
    ELSE IF store[i].id = workspaceId
    THEN store[i]
    ELSE FindInStore(store, i + 1, workspaceId)

\* a loader that uses the stores even when reading them failed
LoadWorkspace_IgnoresReadFailure(workspaceId, mainOk, tempOk) ==
    LET fromMain == FindInStore(MainStore, 1, workspaceId)
    IN  IF fromMain # NullProject
        THEN fromMain
        ELSE IF TempStore.id = workspaceId
        THEN TempStore
        ELSE NullProject

LoadWorkspace(workspaceId, mainOk, tempOk) ==
    LET fromMain == IF mainOk THEN FindInStore(MainStore, 1, workspaceId) ELSE NullProject
    IN  IF fromMain # NullProject
        THEN fromMain
        ELSE IF tempOk /\ TempStore.id = workspaceId
        THEN TempStore
        ELSE NullProject

DefaultRect == Rect(0, 0, 400, 300)

WinA == Window(1, PathA, "", FALSE, "normal", DefaultRect)
WinA2 == Window(2, Path("D:", "A", ".exe"), "", FALSE, "normal", Rect(110, 110, 910, 710))
WinOther == Window(3, Path("C:", "Other", ".exe"), "", FALSE, "normal", DefaultRect)
WinPopup == Window(4, Path("C:", "Other", ".exe"), "", TRUE, "normal", DefaultRect)
WinNoPath == Window(5, EmptyPath, "", FALSE, "normal", DefaultRect)

InitialDesktops ==
    { <<>>,
      <<WinA, WinOther, WinNoPath>>,
      <<WinA, WinA2, WinOther, WinPopup>> }

FirstNewHwnd == WinNoPath.hwnd + 1

\* the processes a launch can start, by what their window will show
Template(app) == [path |-> app.path, aumid |-> app.appUserModelId]
Templates ==
    {Template(MainStore[i].apps[j]) : <<i, j>> \in
        {<<i, j>> \in (1..Len(MainStore)) \X (1..2) : j <= Len(MainStore[i].apps)}}
    \cup {Template(TempStore.apps[j]) : j \in 1..Len(TempStore.apps)}

\* the window a launched process shows: started SW_SHOWMINNOACTIVE
NewWindow(hwnd, t) == Window(hwnd, t.path, t.aumid, FALSE, "minimized", DefaultRect)

(***************************************************************************)
(* State.                                                                  *)
(***************************************************************************)
vars == <<m_processing, m_launchingStatus, m_launchErrors, desktop, pending, nextHwnd,
          pc, result, loc, nSubmits, minimizeCalls, call, service>>

\* no unit was called on its own
NoCall == [fn |-> "none"]

\* the service flags after construction: m_enabled{ false },
\* m_shouldStop{ false }, no IPC helper
ServiceConstructed == [m_enabled |-> FALSE, m_shouldStop |-> FALSE, m_ipcHelper |-> FALSE]

\* the locals of a request; placedExisting (the applications Phase 2 placed
\* a window for) and launcherCalls (the launcher calls made) record what
\* the request did
NoLocals ==
    [workspace |-> NullProject, movedWindows |-> <<>>, currentWindows |-> <<>>,
     unmanagedWindows |-> <<>>, workers |-> <<>>, idx |-> 0, app |-> <<>>,
     waitingTime |-> 0, additionalWait |-> FALSE, launched |-> FALSE,
     elapsed |-> 0, polls |-> 0, foundNewWindow |-> FALSE,
     placedExisting |-> <<>>, launcherCalls |-> 0]

Init ==
    /\ m_processing = FALSE
    /\ m_launchingStatus = NullStatus
    /\ m_launchErrors = <<>>
    /\ desktop \in InitialDesktops
    /\ pending = [t \in Templates |-> 0]
    /\ nextHwnd = FirstNewHwnd
    /\ pc = [c \in Callers |-> "idle"]
    /\ result = [c \in Callers |-> "none"]
    /\ loc = [c \in Callers |-> NoLocals]
    /\ nSubmits = 0
    /\ minimizeCalls = {}
    /\ call = NoCall
    /\ service = ServiceConstructed

(***************************************************************************)
(* Request Intake: OnIPCMessage.                                           *)
(***************************************************************************)
\* a latch test that is not atomic with the set: it always succeeds
CompareExchangeStrong_AlwaysTaken(current, expected, desired) ==
    [ok |-> TRUE, value |-> desired]

\* a latch test that clears the latch when it fails
CompareExchangeStrong_ClearsOnFailure(current, expected, desired) ==
    IF current = expected
    THEN [ok |-> TRUE, value |-> desired]
    ELSE [ok |-> FALSE, value |-> expected]

\* std::atomic<bool>::compare_exchange_strong
CompareExchangeStrong(current, expected, desired) ==
    IF current = expected
    THEN [ok |-> TRUE, value |-> desired]
    ELSE [ok |-> FALSE, value |-> current]

\* OnIPCMessage is entered: the latch is taken, or the message is ignored
Submit(c) ==
    /\ pc[c] = "idle"
    /\ nSubmits < MaxSubmits
    /\ nSubmits' = nSubmits + 1
    /\ LET cas == CompareExchangeStrong(m_processing, FALSE, TRUE)
       IN  /\ m_processing' = cas.value
           /\ IF cas.ok
              THEN /\ pc' = [pc EXCEPT ![c] = "process"]
                   /\ result' = [result EXCEPT ![c] = "none"]
              ELSE /\ pc' = [pc EXCEPT ![c] = "idle"]
                   /\ result' = [result EXCEPT ![c] = "busy"]
    /\ UNCHANGED <<service, call, m_launchingStatus, m_launchErrors, desktop, pending, nextHwnd,
                   loc, minimizeCalls>>

\* the release that is skipped when the request ended by an exception
ReleasedLatch_NotOnException(c) == IF result[c] \in {"exception", "unknown"} THEN m_processing ELSE FALSE

\* m_processing = false at the end of OnIPCMessage
ReleasedLatch(c) == FALSE

Release(c) ==
    /\ pc[c] = "release"
    /\ m_processing' = ReleasedLatch(c)
    /\ pc' = [pc EXCEPT ![c] = "idle"]
    /\ loc' = [loc EXCEPT ![c] = NoLocals]
    /\ UNCHANGED <<service, call, m_launchingStatus, m_launchErrors, desktop, pending, nextHwnd,
                   result, nSubmits, minimizeCalls>>

\* the places an exception is followed from: while the workspace is loaded,
\* when the per-request state is created, and inside the launcher
ThrowPoints == {"process", "execute", "launch"}

\* handlers that cancel the tracker of the request that threw
Throw_Cancels(c) ==
    /\ pc[c] \in ThrowPoints
    /\ \E kind \in {"exception", "unknown"} : result' = [result EXCEPT ![c] = kind]
    /\ pc' = [pc EXCEPT ![c] = "release"]
    /\ m_launchingStatus' = Cancel(m_launchingStatus)
    /\ UNCHANGED <<service, call, m_processing, m_launchErrors, desktop, pending,
                   nextHwnd, loc, nSubmits, minimizeCalls>>

\* ProcessWorkspace throws; one of the two handlers of OnIPCMessage logs it
Throw(c) ==
    /\ pc[c] \in ThrowPoints
    /\ \E kind \in {"exception", "unknown"} : result' = [result EXCEPT ![c] = kind]
    /\ pc' = [pc EXCEPT ![c] = "release"]
    /\ UNCHANGED <<service, call, m_processing, m_launchingStatus, m_launchErrors, desktop, pending,
                   nextHwnd, loc, nSubmits, minimizeCalls>>

(***************************************************************************)
(* ProcessWorkspace and the start of ExecuteWorkspaceSequence.             *)
(***************************************************************************)
\* a test that lets every loaded result through
IsEmptyWorkspace_Never(workspace) == FALSE

\* workspace.id.empty(): nothing was loaded
IsEmptyWorkspace(workspace) == workspace.id = ""

ProcessWorkspace(c) ==
    /\ pc[c] = "process"
    /\ \E workspaceId \in WorkspaceIds, mainOk \in BOOLEAN, tempOk \in BOOLEAN :
          LET workspace == LoadWorkspace(workspaceId, mainOk, tempOk)
          IN  IF IsEmptyWorkspace(workspace)
              THEN /\ pc' = [pc EXCEPT ![c] = "release"]
                   /\ result' = [result EXCEPT ![c] = "notfound"]
                   /\ UNCHANGED loc
              ELSE /\ pc' = [pc EXCEPT ![c] = "execute"]
                   /\ loc' = [loc EXCEPT ![c].workspace = workspace]
                   /\ UNCHANGED result
    /\ UNCHANGED <<service, call, m_processing, m_launchingStatus, m_launchErrors, desktop, pending,
                   nextHwnd, nSubmits, minimizeCalls>>

\* a start of the sequence that keeps the error list of the request before
ExecuteWorkspaceSequence_KeepsErrors(c) ==
    /\ pc[c] = "execute"
    /\ m_launchingStatus' = NewLaunchingStatus(loc[c].workspace)
    /\ minimizeCalls' = {}
    /\ pc' = [pc EXCEPT ![c] = "phase1"]
    /\ UNCHANGED <<service, call, m_processing, m_launchErrors, desktop, pending, nextHwnd, result,
                   loc, nSubmits>>

\* the per-request state is created
ExecuteWorkspaceSequence(c) ==
    /\ pc[c] = "execute"
    /\ m_launchingStatus' = NewLaunchingStatus(loc[c].workspace)
    /\ m_launchErrors' = <<>>
    /\ minimizeCalls' = {}
    /\ pc' = [pc EXCEPT ![c] = "phase1"]
    /\ UNCHANGED <<service, call, m_processing, desktop, pending, nextHwnd, result, loc, nSubmits>>

(***************************************************************************)
(* Phase 1: MinimizeUnmanagedWindowsParallel.                              *)
(***************************************************************************)
\* the sequential pre-filter: the windows handed to the worker threads
UnmanagedWindows(desk, movedWindows, apps) ==
    LET Unmanaged(w) == /\ ~Contains(movedWindows, w.hwnd)
                        /\ ~w.popup
                        /\ ~IsWindowInAppList(w, apps)
    IN  Enumerate(SelectSeq(desk, Unmanaged))

NumThreads(n) == Min(MaxThreads, n)

\* worker ranges in which the last thread takes no remainder
WorkerRanges_NoRemainder(n) ==
    LET numThreads == NumThreads(n)
        windowsPerThread == n \div numThreads
    IN  [t \in 1..numThreads |->
            [next |-> (t - 1) * windowsPerThread + 1,
             end |-> t * windowsPerThread]]

\* [startIdx, endIdx) of each worker thread, as the positions next..end
WorkerRanges(n) ==
    LET numThreads == NumThreads(n)
        windowsPerThread == n \div numThreads
    IN  [t \in 1..numThreads |->
            [next |-> (t - 1) * windowsPerThread + 1,
             end |-> IF t = numThreads THEN n ELSE t * windowsPerThread]]

Phase1Filter(c) ==
    /\ pc[c] = "phase1"
    /\ LET unmanaged == UnmanagedWindows(desktop, <<>>, m_launchingStatus.project.apps)
       IN  IF Len(unmanaged) = 0
           THEN /\ pc' = [pc EXCEPT ![c] = "phase2"]
                /\ UNCHANGED loc
           ELSE /\ pc' = [pc EXCEPT ![c] = "join"]
                /\ loc' = [loc EXCEPT ![c].unmanagedWindows = unmanaged,
                                      ![c].workers = WorkerRanges(Len(unmanaged))]
    /\ UNCHANGED <<service, call, m_processing, m_launchingStatus, m_launchErrors, desktop, pending,
                   nextHwnd, result, nSubmits, minimizeCalls>>

\* one ShowWindow(window, SW_FORCEMINIMIZE) of worker thread t; the thread
\* runs on its own, whatever the thread that started it is doing
Worker(c, t) ==
    /\ t \in 1..Len(loc[c].workers)
    /\ loc[c].workers[t].next <= loc[c].workers[t].end
    /\ LET hwnd == loc[c].unmanagedWindows[loc[c].workers[t].next]
       IN  /\ desktop' = ReplaceWindow(desktop, ForceMinimize(WindowOf(desktop, hwnd)))
           /\ minimizeCalls' = minimizeCalls \cup {hwnd}
    /\ loc' = [loc EXCEPT ![c].workers[t].next = @ + 1]
    /\ UNCHANGED <<service, call, m_processing, m_launchingStatus, m_launchErrors, pending, nextHwnd,
                   pc, result, nSubmits>>

\* the join that does not wait for the worker threads
WorkersDone_NoJoin(workers) == TRUE

\* every thread.join() has returned
WorkersDone(workers) == \A t \in 1..Len(workers) : workers[t].next > workers[t].end

Join(c) ==
    /\ pc[c] = "join"
    /\ WorkersDone(loc[c].workers)
    /\ pc' = [pc EXCEPT ![c] = "phase2"]
    /\ UNCHANGED <<service, call, m_processing, m_launchingStatus, m_launchErrors, desktop, pending,
                   nextHwnd, result, loc, nSubmits, minimizeCalls>>

(***************************************************************************)
(* Phase 2: ProcessExistingWindows.                                        *)
(***************************************************************************)
\* a scan that does not skip the windows already moved
RECURSIVE FirstMatching_IgnoresMoved(_, _, _, _, _)
FirstMatching_IgnoresMoved(currentWindows, j, movedWindows, app, desk) ==
    IF j > Len(currentWindows)
    THEN NullHwnd
    ELSE IF IsWindowMatchApp(WindowOf(desk, currentWindows[j]), app)
    THEN currentWindows[j]
    ELSE FirstMatching_IgnoresMoved(currentWindows, j + 1, movedWindows, app, desk)

\* the first window of the snapshot that is not moved and matches, or NullHwnd
RECURSIVE FirstMatching(_, _, _, _, _)
FirstMatching(currentWindows, j, movedWindows, app, desk) ==
    IF j > Len(currentWindows)
    THEN NullHwnd
    ELSE IF Contains(movedWindows, currentWindows[j])
    THEN FirstMatching(currentWindows, j + 1, movedWindows, app, desk)
    ELSE IF IsWindowMatchApp(WindowOf(desk, currentWindows[j]), app)
    THEN currentWindows[j]
    ELSE FirstMatching(currentWindows, j + 1, movedWindows, app, desk)

\* a Phase 2 that runs only for the workspaces that ask for it
RunsPhase2_ByFlag(workspace) == workspace.moveExistingWindows

\* the condition of Phase 2: workspace.moveExistingWindows || true
RunsPhase2(workspace) == workspace.moveExistingWindows \/ TRUE

\* the local movedWindows is created empty; Phase 2 starts with one
\* enumeration
Phase2Enumerate(c) ==
    /\ pc[c] = "phase2"
    /\ IF RunsPhase2(loc[c].workspace)
       THEN /\ loc' = [loc EXCEPT ![c].currentWindows = Enumerate(desktop),
                                  ![c].movedWindows = <<>>,
                                  ![c].idx = 1]
            /\ pc' = [pc EXCEPT ![c] = "existing"]
       ELSE /\ loc' = [loc EXCEPT ![c].movedWindows = <<>>]
            /\ pc' = [pc EXCEPT ![c] = "phase3"]
    /\ UNCHANGED <<service, call, m_processing, m_launchingStatus, m_launchErrors, desktop, pending,
                   nextHwnd, result, nSubmits, minimizeCalls>>

\* one iteration of the loop over workspace.apps
Phase2App(c) ==
    /\ pc[c] = "existing"
    /\ loc[c].idx <= Len(loc[c].workspace.apps)
    /\ LET app == loc[c].workspace.apps[loc[c].idx]
           hwnd == FirstMatching(loc[c].currentWindows, 1, loc[c].movedWindows, app, desktop)
       IN  IF hwnd = NullHwnd
           THEN /\ loc' = [loc EXCEPT ![c].idx = @ + 1]
                /\ UNCHANGED desktop
           ELSE \E out \in PlacerOutcomes :
                   LET placed == MoveWindowToPosition(WindowOf(desktop, hwnd), app, out)
                   IN  /\ desktop' = ReplaceWindow(desktop, placed.win)
                       /\ loc' = [loc EXCEPT
                                     ![c].movedWindows = IF placed.ok THEN Append(@, hwnd) ELSE @,
                                     ![c].placedExisting = IF placed.ok THEN Append(@, app) ELSE @,
                                     ![c].idx = @ + 1]
    /\ UNCHANGED <<service, call, m_processing, m_launchingStatus, m_launchErrors, pending, nextHwnd,
                   pc, result, nSubmits, minimizeCalls>>

Phase2Return(c) ==
    /\ pc[c] = "existing"
    /\ loc[c].idx > Len(loc[c].workspace.apps)
    /\ pc' = [pc EXCEPT ![c] = "phase3"]
    /\ UNCHANGED <<service, call, m_processing, m_launchingStatus, m_launchErrors, desktop, pending,
                   nextHwnd, result, loc, nSubmits, minimizeCalls>>

(***************************************************************************)
(* Phase 3: LaunchMissingApplicationsAdvanced.                             *)
(***************************************************************************)
\* the re-check that finds nothing
HasExistingWindow_Never(existingWindows, app, desk) == FALSE

\* the re-check: some window of existingWindows matches the application
HasExistingWindow(existingWindows, app, desk) ==
    \E j \in 1..Len(existingWindows) : IsWindowMatchApp(WindowOf(desk, existingWindows[j]), app)

\* the head of the GetNext(Waiting) loop and the re-check
Phase3Next(c) ==
    /\ pc[c] = "phase3"
    /\ IF NextInState(m_launchingStatus, "Waiting") = {}
       THEN /\ pc' = [pc EXCEPT ![c] = "phase4"]
            /\ loc' = [loc EXCEPT ![c].elapsed = 0, ![c].polls = 0, ![c].app = <<>>]
            /\ UNCHANGED m_launchingStatus
       ELSE \E app \in NextInState(m_launchingStatus, "Waiting") :
               IF HasExistingWindow(loc[c].movedWindows, app, desktop)
               THEN /\ m_launchingStatus' = UpdateState(m_launchingStatus, app, "LaunchedAndMoved")
                    /\ loc' = [loc EXCEPT ![c].app = <<app>>]
                    /\ UNCHANGED pc
               ELSE /\ loc' = [loc EXCEPT ![c].app = <<app>>,
                                          ![c].waitingTime = 0,
                                          ![c].additionalWait = FALSE]
                    /\ pc' = [pc EXCEPT ![c] = "wait"]
                    /\ UNCHANGED m_launchingStatus
    /\ UNCHANGED <<service, call, m_processing, m_launchErrors, desktop, pending, nextHwnd, result,
                   nSubmits, minimizeCalls>>

\* a wait that gives up at half the limit
KeepWaiting_HalfLimit(ls, app, waitingTime) ==
    /\ ~AllInstancesOfTheAppLaunchedAndMoved(ls, app)
    /\ waitingTime < LaunchMaxWaitTimeMs \div 2

\* a wait that polls once more when the limit is reached
KeepWaiting_OneMorePoll(ls, app, waitingTime) ==
    /\ ~AllInstancesOfTheAppLaunchedAndMoved(ls, app)
    /\ waitingTime <= LaunchMaxWaitTimeMs

\* the condition of the while loop of the sequencing wait
KeepWaiting(ls, app, waitingTime) ==
    /\ ~AllInstancesOfTheAppLaunchedAndMoved(ls, app)
    /\ waitingTime < LaunchMaxWaitTimeMs

\* the sequencing wait: one test of the loop condition
Phase3Wait(c) ==
    /\ pc[c] = "wait"
    /\ IF KeepWaiting(m_launchingStatus, loc[c].app[1], loc[c].waitingTime)
       THEN /\ loc' = [loc EXCEPT ![c].waitingTime = @ + LaunchPollIntervalMs,
                                  ![c].additionalWait = TRUE]
            /\ UNCHANGED pc
       ELSE /\ pc' = [pc EXCEPT ![c] = IF loc[c].additionalWait THEN "settle" ELSE "launch"]
            /\ UNCHANGED loc
    /\ UNCHANGED <<service, call, m_processing, m_launchingStatus, m_launchErrors, desktop, pending,
                   nextHwnd, result, nSubmits, minimizeCalls>>

\* the extra sleep after a wait
Phase3Settle(c) ==
    /\ pc[c] = "settle"
    /\ pc' = [pc EXCEPT ![c] = "launch"]
    /\ UNCHANGED <<service, call, m_processing, m_launchingStatus, m_launchErrors, desktop, pending,
                   nextHwnd, result, loc, nSubmits, minimizeCalls>>

\* the processes started so far: those that showed a window and those that
\* have not yet
RECURSIVE SumOver(_, _)
SumOver(f, S) ==
    IF S = {}
    THEN 0
    ELSE LET x == CHOOSE y \in S : TRUE
         IN  f[x] + SumOver(f, S \ {x})

Started == (nextHwnd - FirstNewHwnd) + SumOver(pending, Templates)

\* LaunchAppWithFullLogic under m_launchErrorsMutex
Phase3Launch(c) ==
    /\ pc[c] = "launch"
    /\ Started < MaxProcesses
    /\ LET app == loc[c].app[1]
       IN  \E env \in LaunchEnvsFor(app) :
              LET res == LaunchAppWithFullLogic(app, m_launchErrors, env)
              IN  /\ m_launchErrors' = res.errors
                  /\ loc' = [loc EXCEPT ![c].launched = res.launched,
                                        ![c].launcherCalls = @ + 1]
                  /\ pending' = IF res.launched
                                THEN [pending EXCEPT ![Template(app)] = @ + 1]
                                ELSE pending
    /\ pc' = [pc EXCEPT ![c] = "update"]
    /\ UNCHANGED <<service, call, m_processing, m_launchingStatus, desktop, nextHwnd, result,
                   nSubmits, minimizeCalls>>

\* an update that leaves a launched application Waiting
LaunchedState_StaysWaiting(launched) == IF launched THEN "Waiting" ELSE "Failed"

\* the state the tracker gets after the launcher returned
LaunchedState(launched) == IF launched THEN "Launched" ELSE "Failed"

\* a return of the launcher after which the tracker is not updated
Phase3Update_NoUpdate(c) ==
    /\ pc[c] = "update"
    /\ pc' = [pc EXCEPT ![c] = "phase3"]
    /\ UNCHANGED <<service, call, m_processing, m_launchingStatus, m_launchErrors, desktop, pending,
                   nextHwnd, result, loc, nSubmits, minimizeCalls>>

Phase3Update(c) ==
    /\ pc[c] = "update"
    /\ m_launchingStatus' = UpdateState(m_launchingStatus, loc[c].app[1],
                                        LaunchedState(loc[c].launched))
    /\ pc' = [pc EXCEPT ![c] = "phase3"]
    /\ UNCHANGED <<service, call, m_processing, m_launchErrors, desktop, pending, nextHwnd, result,
                   loc, nSubmits, minimizeCalls>>

(***************************************************************************)
(* Phase 4: ProcessNewWindowsAdvanced.                                     *)
(***************************************************************************)
\* the clock readings the loop head can get: the time slept so far, or a
\* reading past the limit; once MaxPlacePolls sleeps are followed only the
\* late reading is left
ClockReadings(elapsed, polls) ==
    (IF polls < MaxPlacePolls THEN {elapsed} ELSE {})
    \cup {Max(elapsed, PlaceMaxWaitTimeMs + 1)}

\* the loop that also leaves when every application is merely launched
PlacingDone_AllLaunched(ls) == AllLaunched(ls)

\* the early exit of the loop
PlacingDone(ls) == AllLaunchedAndMoved(ls)

\* the head of the while (true) loop
Phase4Head(c) ==
    /\ pc[c] = "phase4"
    /\ \E now \in ClockReadings(loc[c].elapsed, loc[c].polls) :
          IF now > PlaceMaxWaitTimeMs \/ PlacingDone(m_launchingStatus)
          THEN /\ pc' = [pc EXCEPT ![c] = "finish"]
               /\ loc' = [loc EXCEPT ![c].elapsed = now]
          ELSE /\ pc' = [pc EXCEPT ![c] = "scan"]
               /\ loc' = [loc EXCEPT ![c].elapsed = now,
                                     ![c].foundNewWindow = FALSE,
                                     ![c].idx = 1]
    /\ UNCHANGED <<service, call, m_processing, m_launchingStatus, m_launchErrors, desktop, pending,
                   nextHwnd, result, nSubmits, minimizeCalls>>

\* the scan of Phase 4 that does not skip the applications it should skip
NeedsWindow_AnyState(ls, app) == app \in DOMAIN ls.appsState

\* the scan of Phase 4 that places nothing once an application has failed
NeedsWindow_NoneFailed(ls, app) ==
    /\ app \in DOMAIN ls.appsState
    /\ ls.appsState[app].state = "Launched"
    /\ \A b \in DOMAIN ls.appsState : ls.appsState[b].state # "Failed"

\* the scan of Phase 4 that tries the failed applications again
NeedsWindow_OrFailed(ls, app) ==
    app \in DOMAIN ls.appsState /\ ls.appsState[app].state \in {"Launched", "Failed"}

\* the applications a scan skips
NeedsWindow(ls, app) ==
    app \in DOMAIN ls.appsState /\ ls.appsState[app].state = "Launched"

\* one iteration of the loop over workspace.apps
Phase4App(c) ==
    /\ pc[c] = "scan"
    /\ loc[c].idx <= Len(loc[c].workspace.apps)
    /\ LET app == loc[c].workspace.apps[loc[c].idx]
           bestWindow == GetNearestWindow(app, loc[c].movedWindows, desktop)
       IN  IF ~NeedsWindow(m_launchingStatus, app) \/ ~bestWindow.found
           THEN /\ loc' = [loc EXCEPT ![c].idx = @ + 1]
                /\ UNCHANGED <<desktop, m_launchingStatus>>
           ELSE \E out \in PlacerOutcomes :
                   LET window == bestWindow.window
                       placed == MoveWindowWithStateHandling(WindowOf(desktop, window), app, out)
                   IN  /\ desktop' = ReplaceWindow(desktop, placed.win)
                       /\ IF placed.ok
                          THEN /\ loc' = [loc EXCEPT ![c].movedWindows = Append(@, window),
                                                     ![c].foundNewWindow = TRUE,
                                                     ![c].idx = @ + 1]
                               /\ m_launchingStatus' =
                                     UpdateWindow(m_launchingStatus, app, window, "LaunchedAndMoved")
                          ELSE /\ loc' = [loc EXCEPT ![c].idx = @ + 1]
                               /\ m_launchingStatus' =
                                     UpdateWindow(m_launchingStatus, app, window, "Failed")
    /\ UNCHANGED <<service, call, m_processing, m_launchErrors, pending, nextHwnd, pc, result,
                   nSubmits, minimizeCalls>>

\* the end of a scan: sleep the poll interval when nothing was placed
Phase4Sleep(c) ==
    /\ pc[c] = "scan"
    /\ loc[c].idx > Len(loc[c].workspace.apps)
    /\ loc' = IF loc[c].foundNewWindow
              THEN loc
              ELSE [loc EXCEPT ![c].elapsed = @ + PlacePollIntervalMs, ![c].polls = @ + 1]
    /\ pc' = [pc EXCEPT ![c] = "phase4"]
    /\ UNCHANGED <<service, call, m_processing, m_launchingStatus, m_launchErrors, desktop, pending,
                   nextHwnd, result, nSubmits, minimizeCalls>>

\* ExecuteWorkspaceSequence and ProcessWorkspace return
Finish(c) ==
    /\ pc[c] = "finish"
    /\ result' = [result EXCEPT ![c] = "ok"]
    /\ pc' = [pc EXCEPT ![c] = "release"]
    /\ UNCHANGED <<service, call, m_processing, m_launchingStatus, m_launchErrors, desktop, pending,
                   nextHwnd, loc, nSubmits, minimizeCalls>>

(***************************************************************************)
(* The environment: a started process shows its window, on top. The        *)
(* service sees the desktop when it enumerates the windows, so a new       *)
(* window is followed from the places right before an enumeration.         *)
(***************************************************************************)
EnumerationPoints == {"phase1", "phase2", "scan"}

WindowAppears(t) ==
    /\ pending[t] > 0
    /\ \E c \in Callers : pc[c] \in EnumerationPoints
    /\ desktop' = <<NewWindow(nextHwnd, t)>> \o desktop
    /\ nextHwnd' = nextHwnd + 1
    /\ pending' = [pending EXCEPT ![t] = @ - 1]
    /\ UNCHANGED <<service, call, m_processing, m_launchingStatus, m_launchErrors, pc, result, loc,
                   nSubmits, minimizeCalls>>

Next ==
    \/ \E c \in Callers : Submit(c)
    \/ \E c \in Callers : ProcessWorkspace(c)
    \/ \E c \in Callers : ExecuteWorkspaceSequence(c)
    \/ \E c \in Callers : Phase1Filter(c)
    \/ \E c \in Callers : \E t \in 1..MaxThreads : Worker(c, t)
    \/ \E c \in Callers : Join(c)
    \/ \E c \in Callers : Phase2Enumerate(c)
    \/ \E c \in Callers : Phase2App(c)
    \/ \E c \in Callers : Phase2Return(c)
    \/ \E c \in Callers : Phase3Next(c)
    \/ \E c \in Callers : Phase3Wait(c)
    \/ \E c \in Callers : Phase3Settle(c)
    \/ \E c \in Callers : Phase3Launch(c)
    \/ \E c \in Callers : Phase3Update(c)
    \/ \E c \in Callers : Phase4Head(c)
    \/ \E c \in Callers : Phase4App(c)
    \/ \E c \in Callers : Phase4Sleep(c)
    \/ \E c \in Callers : Finish(c)
    \/ \E c \in Callers : Throw(c)
    \/ \E c \in Callers : Release(c)
    \/ \E t \in Templates : WindowAppears(t)

Spec == Init /\ [][Next]_vars

(***************************************************************************)
(* Properties of the intake.                                               *)
(***************************************************************************)
\* thread c is between taking the latch and releasing it
InFlight(c) == pc[c] # "idle"

\* C1: single flight. Whatever the interleaving of overlapping OnIPCMessage
\* calls, at most one of them is between acquiring the m_processing latch
\* and releasing it, so two calls are never both inside
\* ExecuteWorkspaceSequence.
C1_SingleFlight == \A c, d \in Callers : (InFlight(c) /\ InFlight(d)) => c = d

\* two calls overlapped: one is in Phase 1, the other was turned away
C1_Witness ==
    \E c, d \in Callers : c # d /\ pc[c] = "phase1" /\ result[d] = "busy"

\* the ways an accepted request ends
ExitPaths == {"ok", "notfound", "exception", "unknown"}

\* C2: the latch is released on every exit path of an accepted request
\* (normal completion, workspace not found, std::exception, unknown
\* exception): when an accepted request ends the latch is false, and a
\* message that arrives when no request is running is accepted, not
\* rejected as busy.
C2_LatchReleased ==
    [][ /\ \A c \in Callers :
              (pc[c] = "release" /\ pc'[c] = "idle")
                 => (result[c] \in ExitPaths /\ ~m_processing')
        /\ ((\A c \in Callers : pc[c] = "idle") /\ nSubmits' = nSubmits + 1)
              => \E c \in Callers : pc'[c] = "process" ]_vars

\* a request ended in the catch (...) handler and a later message is accepted
C2_Witness ==
    \E c, d \in Callers :
        c # d /\ pc[c] = "idle" /\ result[c] = "unknown" /\ pc[d] = "process"

\* C3: a message that arrives while a request is in progress is rejected and
\* changes nothing: the latch, the status tracker, the moved windows, the
\* launch errors and every window stay as they are, and the request in
\* progress stays where it is.
C3_RejectedSubmitChangesNothing ==
    [][ (m_processing /\ nSubmits' # nSubmits)
           => /\ UNCHANGED <<m_processing, m_launchingStatus, m_launchErrors, desktop,
                             pending, nextHwnd, loc, pc, minimizeCalls>>
              /\ \E c \in Callers :
                    pc[c] = "idle" /\ result' = [result EXCEPT ![c] = "busy"] ]_vars

\* a message was rejected while the running request is about to launch an
\* application
C3_Witness ==
    \E c, d \in Callers :
        /\ c # d
        /\ result[d] = "busy"
        /\ pc[c] = "launch"
        /\ m_launchingStatus.project.id # ""

(***************************************************************************)
(* Properties of the four phases.                                          *)
(***************************************************************************)
\* the applications of the request the tracker was created for
WorkspaceApps == m_launchingStatus.project.apps

\* the Identity Matcher matches w to at least one application of the workspace
MatchesWorkspace(w) ==
    \E i \in 1..Len(WorkspaceApps) : IsWindowMatchApp(w, WorkspaceApps[i])

\* C4: workspace protection. No window the Identity Matcher matches to an
\* application of the workspace gets a minimize call in Phase 1, from the
\* calling thread or from a worker thread.
C4_WorkspaceProtection ==
    \A i \in 1..Len(desktop) :
        MatchesWorkspace(desktop[i]) => desktop[i].hwnd \notin minimizeCalls

\* Phase 1 is over, it minimized a window, and it spared a window that
\* matches an application by its process name only
C4_Witness ==
    /\ minimizeCalls # {}
    /\ \E c \in Callers : pc[c] = "phase2"
    /\ \E i \in 1..Len(desktop) :
          /\ MatchesWorkspace(desktop[i])
          /\ \A j \in 1..Len(WorkspaceApps) : WorkspaceApps[j].path # desktop[i].processPath
          /\ desktop[i].showCmd # "minimized"

\* the step that creates the tracker of a new request
NewRequestStep == \E c \in Callers : pc[c] = "execute" /\ pc'[c] = "phase1"

\* Waiting -> Launched -> LaunchedAndMoved, Waiting -> Failed, Launched -> Failed
StateMachine ==
    { <<"Waiting", "Launched">>, <<"Launched", "LaunchedAndMoved">>,
      <<"Waiting", "Failed">>, <<"Launched", "Failed">> }

\* every application keeps its state or follows a transition of T
TransitionsWithin(T) ==
    \A a \in DOMAIN m_launchingStatus.appsState :
        \/ m_launchingStatus'.appsState[a].state = m_launchingStatus.appsState[a].state
        \/ <<m_launchingStatus.appsState[a].state,
             m_launchingStatus'.appsState[a].state>> \in T

\* C5 as stated: within a request the states of every application follow
\* Waiting -> Launched -> LaunchedAndMoved, Waiting -> Failed and
\* Launched -> Failed only; no application goes from Waiting to
\* LaunchedAndMoved without passing through Launched.
C5_AsStated == [][ ~NewRequestStep => TransitionsWithin(StateMachine) ]_vars

\* C5: within a request the states of every application follow
\* Waiting -> Launched -> LaunchedAndMoved, Waiting -> Failed,
\* Launched -> Failed, and Waiting -> LaunchedAndMoved (the re-check of
\* Phase 3); no state is left once Failed or LaunchedAndMoved is reached.
C5_Monotone ==
    [][ ~NewRequestStep
           => TransitionsWithin(StateMachine \cup {<<"Waiting", "LaunchedAndMoved">>}) ]_vars

\* the re-check of Phase 3 marked an application LaunchedAndMoved that was
\* never launched, while another one is still Waiting
C5_Witness ==
    /\ \E c \in Callers : pc[c] = "phase3"
    /\ \E a, b \in DOMAIN m_launchingStatus.appsState :
          /\ m_launchingStatus.appsState[a].state = "LaunchedAndMoved"
          /\ m_launchingStatus.appsState[a].window = NullHwnd
          /\ m_launchingStatus.appsState[b].state = "Waiting"

NoDuplicates(seq) == \A i, j \in 1..Len(seq) : seq[i] = seq[j] => i = j

\* C6: at-most-once move. In every state of a request the moved windows hold
\* no handle twice, over Phase 2 and Phase 4 together, also when several
\* entries of the workspace match the same window.
C6_AtMostOnceMove == \A c \in Callers : NoDuplicates(loc[c].movedWindows)

\* a request ends with one window moved in Phase 2 and one placed in Phase 4
C6_Witness ==
    \E c \in Callers :
        /\ pc[c] = "finish"
        /\ Len(loc[c].movedWindows) = 2
        /\ Contains(loc[c].currentWindows, loc[c].movedWindows[1])
        /\ ~Contains(loc[c].currentWindows, loc[c].movedWindows[2])

\* C7 as stated: completeness on success. When a request ends with every
\* application LaunchedAndMoved, each application has a window handle bound
\* in its LaunchingAppState and that handle is among the moved windows.
C7_AsStated ==
    \A c \in Callers :
        (pc[c] = "finish" /\ AllLaunchedAndMoved(m_launchingStatus))
           => \A a \in DOMAIN m_launchingStatus.appsState :
                 /\ m_launchingStatus.appsState[a].window # NullHwnd
                 /\ Contains(loc[c].movedWindows, m_launchingStatus.appsState[a].window)

\* the phase a place of ProcessWorkspace belongs to, 0 outside the phases
PhaseOf(p) ==
    CASE p \in {"phase1", "join"} -> 1
      [] p \in {"phase2", "existing"} -> 2
      [] p \in {"phase3", "wait", "settle", "launch", "update"} -> 3
      [] p \in {"phase4", "scan", "finish"} -> 4
      [] OTHER -> 0

C9_FailSoft ==
    [][ \A c \in Callers :
          /\ \A a \in DOMAIN m_launchingStatus.appsState :
                (/\ ~NewRequestStep
                 /\ InFlight(c)
                 /\ m_launchingStatus.appsState[a].state # "Failed"
                 /\ m_launchingStatus'.appsState[a].state = "Failed")
                   => /\ \A b \in DOMAIN m_launchingStatus.appsState \ {a} :
                            m_launchingStatus'.appsState[b] = m_launchingStatus.appsState[b]
                      /\ loc'[c].movedWindows = loc[c].movedWindows
                      /\ pc'[c] \in {"phase3", "scan"}
          /\ (pc[c] = "scan" /\ loc'[c].idx = loc[c].idx + 1)
                => LET app == loc[c].workspace.apps[loc[c].idx]
                   IN  (/\ app \in DOMAIN m_launchingStatus.appsState
                        /\ m_launchingStatus.appsState[app].state = "Launched"
                        /\ GetNearestWindow(app, loc[c].movedWindows, desktop).found)
                          => \/ m_launchingStatus'.appsState[app].state = "Failed"
                             \/ /\ m_launchingStatus'.appsState[app].state = "LaunchedAndMoved"
                                /\ Contains(loc'[c].movedWindows,
                                            m_launchingStatus'.appsState[app].window)
          /\ (pc[c] # "finish" /\ pc'[c] = "finish")
                => \A a \in DOMAIN m_launchingStatus.appsState :
                      m_launchingStatus.appsState[a].state # "Waiting" ]_vars

\* Y failed with File not found and B, in the same workspace, was launched
\* and placed
C9_Witness ==
    /\ \E c \in Callers : pc[c] = "finish"
    /\ m_launchingStatus.project.id = "ws_xy"
    /\ m_launchingStatus.appsState[AppY].state = "Failed"
    /\ m_launchingStatus.appsState[AppB].state = "LaunchedAndMoved"
    /\ m_launchErrors = <<<<Filename(PathY), "File not found">>>>

\* C10: in Phase 3, for every application handed to the launcher: when the
\* launcher returns success the state of the application becomes Launched;
\* when it returns failure the state becomes Failed and the launch errors
\* gained at least one entry during that call.
C10_LaunchOutcome ==
    [][ \A c \in Callers :
          /\ (pc[c] = "launch" /\ pc'[c] = "update")
                => /\ ~loc'[c].launched => Len(m_launchErrors') > Len(m_launchErrors)
                   /\ \A i \in 1..Len(m_launchErrors) : m_launchErrors'[i] = m_launchErrors[i]
          /\ (pc[c] = "update" /\ pc'[c] = "phase3")
                => m_launchingStatus'.appsState[loc[c].app[1]].state
                      = (IF loc[c].launched THEN "Launched" ELSE "Failed") ]_vars

\* the packaged application failed in two strategies and is Failed, the
\* other application of the workspace is Launched
C10_Witness ==
    /\ \E c \in Callers : pc[c] = "phase3"
    /\ m_launchingStatus.project.id = "ws_tmp"
    /\ m_launchingStatus.appsState[AppAMin].state = "Failed"
    /\ m_launchingStatus.appsState[AppB].state = "Launched"
    /\ Len(m_launchErrors) >= 2

PlacedRect(app) == screenToWorkAreaCoords(MonitorFromRect(TargetRect(app)), TargetRect(app))

\* two distinct moved windows, one placed for a and one placed for b
TwoWindowsPlaced(c, a, b) ==
    \E i, j \in 1..Len(loc[c].movedWindows) :
        /\ loc[c].movedWindows[i] # loc[c].movedWindows[j]
        /\ WindowOf(desktop, loc[c].movedWindows[i]).rect = PlacedRect(a)
        /\ WindowOf(desktop, loc[c].movedWindows[j]).rect = PlacedRect(b)

\* C12 as stated: duplicate entries. For a workspace with two entries of the
\* same executable at positions P1 and P2, whatever windows of it are open
\* at the start, when the request ends with both entries LaunchedAndMoved
\* two distinct windows have been placed, one at P1 and one at P2.
C12_AsStated ==
    \A c \in Callers :
        (/\ pc[c] = "finish"
         /\ loc[c].workspace.apps = <<AppA1, AppA2>>
         /\ AllLaunchedAndMoved(m_launchingStatus))
           => TwoWindowsPlaced(c, AppA1, AppA2)

\* C13 as stated: Phase 2 state advance. When the Placer succeeds for an
\* application in Phase 2 its tracker state is advanced to LaunchedAndMoved
\* as part of Phase 2, so while Phase 2 goes on and at the moment it ends
\* every application with a Phase-2-placed window is LaunchedAndMoved.
C13_AsStated ==
    \A c \in Callers :
        (pc[c] = "existing" \/ (pc[c] = "phase3" /\ loc[c].app = <<>>))
           => \A i \in 1..Len(loc[c].placedExisting) :
                 m_launchingStatus.appsState[loc[c].placedExisting[i]].state
                    = "LaunchedAndMoved"

\* C14: Phase 4 attempts a placement only for an application whose state is
\* exactly Launched when the scan reaches it (and for which the selector
\* finds a window). When the Placer succeeds the window is added to the
\* moved windows, bound to the application, and the state becomes
\* LaunchedAndMoved; when it fails the window is bound, the state becomes
\* Failed and the moved windows stay as they are. Either way the
\* application is no longer Launched, so it gets one attempt at most.
C14_Phase4Placement ==
    [][ \A c \in Callers :
          (pc[c] = "scan" /\ loc'[c].idx = loc[c].idx + 1)
             => LET app == loc[c].workspace.apps[loc[c].idx]
                    best == GetNearestWindow(app, loc[c].movedWindows, desktop)
                IN  IF m_launchingStatus.appsState[app].state # "Launched" \/ ~best.found
                    THEN /\ m_launchingStatus' = m_launchingStatus
                         /\ loc'[c].movedWindows = loc[c].movedWindows
                         /\ desktop' = desktop
                    ELSE /\ \A b \in DOMAIN m_launchingStatus.appsState \ {app} :
                               m_launchingStatus'.appsState[b] = m_launchingStatus.appsState[b]
                         /\ m_launchingStatus'.appsState[app].window = best.window
                         /\ \/ /\ m_launchingStatus'.appsState[app].state = "LaunchedAndMoved"
                               /\ loc'[c].movedWindows = Append(loc[c].movedWindows, best.window)
                            \/ /\ m_launchingStatus'.appsState[app].state = "Failed"
                               /\ loc'[c].movedWindows = loc[c].movedWindows ]_vars

\* a scan goes on after one placement failed and one succeeded: the failed
\* application has its window bound and not among the moved windows
C14_Witness ==
    \E c \in Callers :
        /\ pc[c] = "scan"
        /\ \E a, b \in DOMAIN m_launchingStatus.appsState :
              /\ m_launchingStatus.appsState[a].state = "Failed"
              /\ m_launchingStatus.appsState[a].window # NullHwnd
              /\ ~Contains(loc[c].movedWindows, m_launchingStatus.appsState[a].window)
              /\ m_launchingStatus.appsState[b].state = "LaunchedAndMoved"
              /\ Contains(loc[c].movedWindows, m_launchingStatus.appsState[b].window)

\* the request thread is scheduled: the loop of Phase 4 keeps running
Phase4Step(c) == Phase4Head(c) \/ Phase4App(c) \/ Phase4Sleep(c)

\* one request: ExecuteWorkspaceSequence runs once from the state after
\* construction, and the messages that arrive meanwhile are ignored
OneRequestNext ==
    \/ \E c \in Callers : (nSubmits = 0 \/ m_processing) /\ Submit(c)
    \/ \E c \in Callers : ProcessWorkspace(c)
    \/ \E c \in Callers : ExecuteWorkspaceSequence(c)
    \/ \E c \in Callers : Phase1Filter(c)
    \/ \E c \in Callers : \E t \in 1..MaxThreads : Worker(c, t)
    \/ \E c \in Callers : Join(c)
    \/ \E c \in Callers : Phase2Enumerate(c)
    \/ \E c \in Callers : Phase2App(c)
    \/ \E c \in Callers : Phase2Return(c)
    \/ \E c \in Callers : Phase3Next(c)
    \/ \E c \in Callers : Phase3Wait(c)
    \/ \E c \in Callers : Phase3Settle(c)
    \/ \E c \in Callers : Phase3Launch(c)
    \/ \E c \in Callers : Phase3Update(c)
    \/ \E c \in Callers : Phase4Head(c)
    \/ \E c \in Callers : Phase4App(c)
    \/ \E c \in Callers : Phase4Sleep(c)
    \/ \E c \in Callers : Finish(c)
    \/ \E c \in Callers : Throw(c)
    \/ \E c \in Callers : Release(c)
    \/ \E t \in Templates : WindowAppears(t)

FairSpec ==
    /\ Init
    /\ [][OneRequestNext]_vars
    /\ \A c \in Callers : WF_vars(Phase4Step(c))

\* C15: Phase 4 always terminates. The loop head leaves the loop at its
\* first test after every application is LaunchedAndMoved, and otherwise
\* only when more than 5000 ms have elapsed; in particular with a Failed
\* application the loop runs until the timeout.
C15_Phase4Terminates ==
    /\ \A c \in Callers : (pc[c] \in {"phase4", "scan"}) ~> (pc[c] = "finish")
    /\ [][ \A c \in Callers :
             /\ (pc[c] = "phase4" /\ pc'[c] # "phase4" /\ AllLaunchedAndMoved(m_launchingStatus))
                   => pc'[c] = "finish"
             /\ (pc[c] = "phase4" /\ pc'[c] = "finish")
                   => \/ AllLaunchedAndMoved(m_launchingStatus)
                      \/ loc'[c].elapsed > PlaceMaxWaitTimeMs ]_vars

\* Phase 4 ended by the timeout with a Failed application, after the other
\* application was placed
C15_Witness ==
    \E c \in Callers :
        /\ pc[c] = "finish"
        /\ loc[c].elapsed > PlaceMaxWaitTimeMs
        /\ loc[c].polls > 0
        /\ \E a, b \in DOMAIN m_launchingStatus.appsState :
              /\ m_launchingStatus.appsState[a].state = "Failed"
              /\ m_launchingStatus.appsState[b].state = "LaunchedAndMoved"

\* the poll sleeps of the sequencing wait taken so far
PollsTaken(c) == loc[c].waitingTime \div LaunchPollIntervalMs

\* C16: the sequencing wait of Phase 3 sleeps 50 ms per poll, and goes on
\* exactly while the instances of the application are not all
\* LaunchedAndMoved and less than 2000 ms were waited (40 polls when nothing
\* changes); the 500 ms settle sleep is taken if and only if a poll sleep
\* occurred; the launcher is entered only from the end of the wait or of the
\* settle sleep.
C16_SequencingWait ==
    [][ \A c \in Callers :
          /\ (pc[c] = "wait" /\ pc'[c] = "wait" /\ loc'[c] # loc[c])
                => /\ ~AllInstancesOfTheAppLaunchedAndMoved(m_launchingStatus, loc[c].app[1])
                   /\ loc[c].waitingTime < LaunchMaxWaitTimeMs
                   /\ loc'[c].waitingTime = loc[c].waitingTime + LaunchPollIntervalMs
                   /\ loc'[c].additionalWait
          /\ (pc[c] = "wait" /\ pc'[c] \in {"settle", "launch"})
                => /\ \/ AllInstancesOfTheAppLaunchedAndMoved(m_launchingStatus, loc[c].app[1])
                      \/ (loc[c].waitingTime = LaunchMaxWaitTimeMs /\ PollsTaken(c) = 40)
                   /\ (pc'[c] = "settle") <=> (PollsTaken(c) > 0)
                   /\ loc[c].additionalWait <=> (PollsTaken(c) > 0)
          /\ (pc[c] # "launch" /\ pc'[c] = "launch")
                => \/ pc[c] = "settle"
                   \/ (pc[c] = "wait" /\ PollsTaken(c) = 0)
          /\ (pc[c] # "wait" /\ pc'[c] = "wait")
                => (loc'[c].waitingTime = 0 /\ ~loc'[c].additionalWait)
          /\ (pc[c] = "launch" /\ pc'[c] = "update")
                => loc'[c].waitingTime = loc[c].waitingTime ]_vars

\* the launcher is about to be called after 40 polls and the settle sleep
C16_Witness ==
    \E c \in Callers :
        /\ pc[c] = "launch"
        /\ PollsTaken(c) = 40
        /\ loc[c].additionalWait
        /\ loc[c].launcherCalls = 1

\* the applications the launcher was called for and whose state was updated
\* after it returned: Launched or Failed, or placed later on a window
HandedToLauncher(ls) ==
    {a \in DOMAIN ls.appsState :
        \/ ls.appsState[a].state \in {"Launched", "Failed"}
        \/ (ls.appsState[a].state = "LaunchedAndMoved" /\ ls.appsState[a].window # NullHwnd)}

\* C17: the launches of a request are serialized. When the launcher is
\* called for an application, every earlier launcher call of the request has
\* returned and its application has been updated to Launched or Failed; the
\* one call whose update is still to come is for an application that is
\* still Waiting; no two launcher calls are in progress together.
C17_LaunchesSerialized ==
    /\ Cardinality({c \in Callers : pc[c] \in {"launch", "update"}}) <= 1
    /\ \A c \in Callers :
          /\ pc[c] \in {"phase3", "wait", "settle", "launch", "phase4", "scan", "finish"}
                => loc[c].launcherCalls = Cardinality(HandedToLauncher(m_launchingStatus))
          /\ pc[c] = "update"
                => /\ loc[c].launcherCalls = Cardinality(HandedToLauncher(m_launchingStatus)) + 1
                   /\ m_launchingStatus.appsState[loc[c].app[1]].state = "Waiting"
          /\ pc[c] = "launch"
                => m_launchingStatus.appsState[loc[c].app[1]].state = "Waiting"

\* the second launcher call of a request has returned, after the first
\* application was updated
C17_Witness ==
    \E c \in Callers :
        /\ pc[c] = "update"
        /\ loc[c].launcherCalls = 2
        /\ Cardinality(HandedToLauncher(m_launchingStatus)) = 1
        /\ Cardinality({d \in Callers : pc[d] = "idle"}) = NumCallers - 1

\* the request of caller c is inside ExecuteWorkspaceSequence
InPipeline(c) == pc[c] \notin {"idle", "process", "release"}

\* C18 as stated: a workspace with no applications never enters the pipeline
C18_AsStated ==
    \A c \in Callers : InPipeline(c) => Len(loc[c].workspace.apps) > 0

\* C18: the workspace the pipeline runs on has a non-empty id: when the
\* loader leaves the workspace empty (its id is empty, nothing was found)
\* the request returns without entering the pipeline and none of its locals
\* is touched. The test is on the id, so a stored workspace with zero
\* applications does enter the pipeline.
C18_EmptyIdNotEntered ==
    \A c \in Callers :
        /\ InPipeline(c) => loc[c].workspace.id # ""
        /\ (pc[c] = "release" /\ result[c] = "notfound") => loc[c] = NoLocals

\* a request returned on the empty result of the loader, with windows open
C18_Witness ==
    \E c \in Callers :
        /\ pc[c] = "release"
        /\ result[c] = "notfound"
        /\ nSubmits = 1
        /\ Len(desktop) > 0
        /\ m_launchingStatus = NullStatus

\* C19 as stated: a request whose workspace has zero applications goes
\* through the pipeline without minimizing, moving or launching anything,
\* whatever windows are open.
C19_AsStated ==
    \A c \in Callers :
        (InPipeline(c) /\ loc[c].workspace.apps = <<>>)
            => /\ minimizeCalls = {}
               /\ loc[c].movedWindows = <<>>
               /\ loc[c].launcherCalls = 0

\* the id is found in a store that could be read
FoundInStores(workspaceId, mainOk, tempOk) ==
    \/ mainOk /\ \E i \in 1..Len(MainStore) : MainStore[i].id = workspaceId
    \/ tempOk /\ TempStore.id = workspaceId

\* C20: an id found in neither store, or stores that cannot be read, leave
\* the loaded workspace empty; the request then returns from ProcessWorkspace
\* without running a phase: the tracker, the moved windows and the other
\* locals, the launch errors and every window are as before, and the latch
\* is released when OnIPCMessage returns.
C20_NotFound ==
    /\ \A workspaceId \in WorkspaceIds, mainOk \in BOOLEAN, tempOk \in BOOLEAN :
          IF FoundInStores(workspaceId, mainOk, tempOk)
          THEN LoadWorkspace(workspaceId, mainOk, tempOk).id = workspaceId
          ELSE LoadWorkspace(workspaceId, mainOk, tempOk) = NullProject
    /\ [][ \A c \in Callers :
             /\ (pc[c] = "process" /\ pc'[c] = "release")
                   => /\ result'[c] \in {"notfound", "exception", "unknown"}
                      /\ UNCHANGED <<m_launchingStatus, m_launchErrors, desktop, pending,
                                     loc, minimizeCalls, m_processing>>
             /\ (pc[c] = "release" /\ pc'[c] = "idle" /\ result[c] = "notfound")
                   => (m_processing /\ ~m_processing') ]_vars

\* an unknown id was submitted after a request that ran the pipeline: the
\* tracker of that request is still there
C20_Witness ==
    \E c \in Callers :
        /\ pc[c] = "release"
        /\ result[c] = "notfound"
        /\ nSubmits = 2
        /\ m_launchingStatus # NullStatus
        /\ Len(m_launchErrors) > 0
        /\ Len(desktop) > 0

(***************************************************************************)
(* The units on their own: the matcher, the selector, the placers and the  *)
(* launcher are called with arguments drawn from small sets, outside any   *)
(* request; call keeps the arguments and what the unit returned.           *)
(***************************************************************************)
PathQ == Path("C:", "Q", ".exe")

MatchPaths ==
    {EmptyPath, PathA, Path("D:", "A", ".exe"), Path("C:", "MSEDGE", ".exe"),
     Path("C:", "chrome", ".exe"), Path("C:", "Other", ".exe")}

MatchAumids == {"", "Pkg.A!App", "edge.pwa.xyz", "chrome.pwa.xyz"}

MatchWindows ==
    {Window(1, p, u, FALSE, "normal", DefaultRect) : p \in MatchPaths, u \in MatchAumids}

MatchApps ==
    {Application(n, p, u, "", w, "", "", FALSE, FALSE, FALSE, P1) :
        n \in {"A", "Q"}, p \in {PathA, PathQ}, u \in {"", "Pkg.A!App"}, w \in {"", "xyz"}}

\* IsWindowMatchApp(window, app, pwaHelper) is called
CallIsWindowMatchApp ==
    /\ call = NoCall
    /\ \E w \in MatchWindows, app \in MatchApps :
          call' = [fn |-> "IsWindowMatchApp", window |-> w, app |-> app,
                   ret |-> IsWindowMatchApp(w, app)]
    /\ UNCHANGED <<service, m_processing, m_launchingStatus, m_launchErrors, desktop, pending,
                   nextHwnd, pc, result, loc, nSubmits, minimizeCalls>>

\* the same call is made once more
RecallIsWindowMatchApp ==
    /\ call.fn = "IsWindowMatchApp"
    /\ call' = [call EXCEPT !.ret = IsWindowMatchApp(call.window, call.app)]
    /\ UNCHANGED <<service, m_processing, m_launchingStatus, m_launchErrors, desktop, pending,
                   nextHwnd, pc, result, loc, nSubmits, minimizeCalls>>

\* the caller has used the returned value
Return ==
    /\ call # NoCall
    /\ call' = NoCall
    /\ UNCHANGED <<service, m_processing, m_launchingStatus, m_launchErrors, desktop, pending,
                   nextHwnd, pc, result, loc, nSubmits, minimizeCalls>>

\* the four rules of the matcher
Rule1(w, app) == w.aumid # "" /\ app.appUserModelId # "" /\ app.appUserModelId = w.aumid
Rule2(w, app) == app.path = w.processPath
Rule3(w, app) == app.name = Stem(w.processPath)
Rule4(w, app) ==
    /\ app.pwaAppId # ""
    /\ \/ (ToLower(Stem(w.processPath)) = "msedge" /\ GetEdgeAppId(w.aumid) = <<app.pwaAppId>>)
       \/ (ToLower(Stem(w.processPath)) = "chrome" /\ GetChromeAppId(w.aumid) = <<app.pwaAppId>>)

\* C21 as stated: the matcher returns true exactly when one of the four
\* rules holds, and an empty process path of the window disables only
\* rules 2 to 4.
C21_AsStated ==
    call.fn = "IsWindowMatchApp"
        => (call.ret <=> \/ Rule1(call.window, call.app)
                         \/ /\ call.window.processPath # EmptyPath
                            /\ \/ Rule2(call.window, call.app)
                               \/ Rule3(call.window, call.app)
                               \/ Rule4(call.window, call.app))

\* the trackers a unit may be called under
UnitTrackers ==
    {NullStatus, UpdateState(NewLaunchingStatus(MainStore[1]), AppA1, "LaunchedAndMoved")}

\* between two calls the service is somewhere else: another moved set,
\* another tracker state, another phase
ContextChanges ==
    /\ \E moved \in {<<>>, <<1>>}, ls \in UnitTrackers, phase \in {"idle", "phase2", "scan"} :
          /\ loc' = [loc EXCEPT ![1].movedWindows = moved]
          /\ m_launchingStatus' = ls
          /\ pc' = [pc EXCEPT ![1] = phase]
    /\ UNCHANGED <<service, m_processing, m_launchErrors, desktop, pending, nextHwnd, result,
                   nSubmits, minimizeCalls, call>>

DistRects ==
    {Rect(100, 100, 900, 700), Rect(0, 0, 400, 300), Rect(110, 90, 910, 710),
     Rect(-500, -20, 300, 580), Rect(2000, 100, 2800, 700)}

DistWindows ==
    {Window(1, PathA, "", FALSE, s, r) : s \in {"normal", "minimized", "maximized"}, r \in DistRects}

DistApps ==
    {Application("A", PathA, "", "", "", "", "", FALSE, m, FALSE, p) :
        m \in BOOLEAN, p \in {P1, P2, Position(-500, -20, 800, 600), Position(0, 0, 0, 0)}}

\* calculateDistance(window) of GetNearestWindow is called
CallCalculateDistance ==
    /\ call = NoCall
    /\ \E w \in DistWindows, app \in DistApps :
          call' = [fn |-> "calculateDistance", window |-> w, app |-> app,
                   ret |-> calculateDistance(app, w)]
    /\ UNCHANGED <<service, m_processing, m_launchingStatus, m_launchErrors, desktop, pending,
                   nextHwnd, pc, result, loc, nSubmits, minimizeCalls>>

\* C23: the distance is 0 when the application is saved minimized and the
\* window is minimized; otherwise it is the penalty (1 when neither is
\* minimized, 10000 when exactly one is) plus the four absolute differences
\* of the edges; a window on the saved rectangle in the saved show state is
\* at distance 1 (normal) or 0 (minimized).
C23_Distance ==
    call.fn = "calculateDistance"
        => LET a == call.app
               w == call.window
               windowMinimized == w.showCmd = "minimized"
               edges == Abs(a.position.x - w.rect.left)
                        + Abs(a.position.y - w.rect.top)
                        + Abs(a.position.x + a.position.width - w.rect.right)
                        + Abs(a.position.y + a.position.height - w.rect.bottom)
           IN  /\ (a.isMinimized /\ windowMinimized) => call.ret = 0
               /\ (~a.isMinimized /\ ~windowMinimized) => call.ret = 1 + edges
               /\ (a.isMinimized # windowMinimized) => call.ret = 10000 + edges
               /\ (edges = 0 /\ a.isMinimized = windowMinimized)
                     => call.ret = IF a.isMinimized THEN 0 ELSE 1

\* the distance was taken between a window off its saved rectangle and an
\* application saved minimized whose window is not minimized
C23_Witness ==
    /\ call.fn = "calculateDistance"
    /\ call.app.isMinimized
    /\ call.window.showCmd = "normal"
    /\ call.window.rect.left < 0
    /\ call.ret > 10000

\* the windows the selector chooses from: two windows of A on the same
\* rectangle, one on the saved rectangle, a popup of A, a minimized one and
\* a window of another process
SelWindows ==
    {Window(1, PathA, "", FALSE, "normal", DefaultRect),
     Window(2, PathA, "", FALSE, "normal", DefaultRect),
     Window(3, PathA, "", FALSE, "normal", Rect(100, 100, 900, 700)),
     Window(4, PathA, "", TRUE, "normal", Rect(100, 100, 900, 700)),
     Window(5, Path("C:", "Other", ".exe"), "", FALSE, "normal", Rect(100, 100, 900, 700)),
     Window(6, Path("D:", "A", ".exe"), "", FALSE, "minimized", DefaultRect)}

\* the enumerations of at most MaxSelWindows of them
MaxSelWindows == 3

SelDesktops ==
    {d \in UNION {[1..n -> SelWindows] : n \in 0..MaxSelWindows} :
        \A i, j \in 1..Len(d) : i # j => d[i] # d[j]}

\* GetNearestWindow(app, movedWindows, pwaHelper) is called
CallGetNearestWindow ==
    /\ call = NoCall
    /\ \E desk \in SelDesktops, app \in {AppA1, AppAMin, AppB},
          movedWindows \in {<<>>, <<1>>, <<3>>} :
          call' = [fn |-> "GetNearestWindow", desk |-> desk, app |-> app,
                   movedWindows |-> movedWindows,
                   ret |-> GetNearestWindow(app, movedWindows, desk)]
    /\ UNCHANGED <<service, m_processing, m_launchingStatus, m_launchErrors, desktop, pending,
                   nextHwnd, pc, result, loc, nSubmits, minimizeCalls>>

\* the places of the candidate windows of a call of the selector: not a
\* popup, not moved, matching the application
CandidatePlaces(desk, app, movedWindows) ==
    {i \in 1..Len(desk) :
        /\ ~desk[i].popup
        /\ \A k \in 1..Len(movedWindows) : movedWindows[k] # desk[i].hwnd
        /\ IsWindowMatchApp(desk[i], app)}

\* C24: the selector returns no result exactly when there is no candidate;
\* otherwise it returns a candidate of minimal distance, the earliest in
\* enumeration order among those, with its distance.
C24_Selector ==
    call.fn = "GetNearestWindow"
        => LET cand == CandidatePlaces(call.desk, call.app, call.movedWindows)
               d(i) == calculateDistance(call.app, call.desk[i])
           IN  /\ call.ret.found <=> cand # {}
               /\ call.ret.found
                     => \E i \in cand :
                           /\ call.ret.window = call.desk[i].hwnd
                           /\ call.ret.distance = d(i)
                           /\ \A j \in cand : d(j) >= d(i) /\ (d(j) = d(i) => j >= i)

\* the selector chose between two windows at the same distance, after a
\* window it had to skip
C24_Witness ==
    /\ call.fn = "GetNearestWindow"
    /\ call.ret.found
    /\ Len(call.desk) = 3
    /\ \E i, j \in CandidatePlaces(call.desk, call.app, call.movedWindows) :
          /\ i < j
          /\ call.ret.window = call.desk[i].hwnd
          /\ calculateDistance(call.app, call.desk[j]) = call.ret.distance
    /\ call.desk[1].hwnd \in {4, 5}

\* the applications a window is placed for: normal, minimized or maximized,
\* saved on the primary monitor, on the second, across both, or off both
PlaceApps ==
    {Application("A", PathA, "", "", "", "", "", FALSE, st = "minimized", st = "maximized", p) :
        st \in {"normal", "minimized", "maximized"},
        p \in {P1, P2, Position(1500, 100, 800, 600), Position(5000, 5000, 800, 600)}}

PlaceWindows ==
    {Window(1, PathA, "", FALSE, "normal", DefaultRect), NewWindow(2, Template(AppA1))}

\* MoveWindowToPosition(window, app) is called
CallMoveWindowToPosition ==
    /\ call = NoCall
    /\ \E w \in PlaceWindows, app \in PlaceApps, out \in PlacerOutcomes :
          call' = [fn |-> "MoveWindowToPosition", window |-> w, app |-> app, out |-> out,
                   ret |-> MoveWindowToPosition(w, app, out)]
    /\ UNCHANGED <<service, m_processing, m_launchingStatus, m_launchErrors, desktop, pending,
                   nextHwnd, pc, result, loc, nSubmits, minimizeCalls>>

\* MoveWindowWithStateHandling(window, app) is called
CallMoveWindowWithStateHandling ==
    /\ call = NoCall
    /\ \E w \in PlaceWindows, app \in PlaceApps, out \in PlacerOutcomes :
          call' = [fn |-> "MoveWindowWithStateHandling", window |-> w, app |-> app,
                   out |-> out, ret |-> MoveWindowWithStateHandling(w, app, out)]
    /\ UNCHANGED <<service, m_processing, m_launchingStatus, m_launchErrors, desktop, pending,
                   nextHwnd, pc, result, loc, nSubmits, minimizeCalls>>

\* a placer was called
PlacerCalled == call.fn \in {"MoveWindowToPosition", "MoveWindowWithStateHandling"}

\* C25 as stated: for an application that is not minimized, both placers
\* return false when the move-and-resize call fails or the maximize call
\* fails, also when the move fails and the maximize that follows succeeds.
C25_AsStated ==
    (/\ PlacerCalled
     /\ ~call.app.isMinimized
     /\ \/ ~call.out.setpos
        \/ (call.app.isMaximized /\ ~call.out.maximize))
        => ~call.ret.ok

\* C26: for an application saved minimized each placer makes one call, the
\* force-minimize of the window, and neither shows, moves nor maximizes it;
\* what the placer returns is what that call returned.
C26_MinimizedOnly ==
    (PlacerCalled /\ call.app.isMinimized)
        => /\ call.ret.calls = <<"minimize">>
           /\ call.ret.ok = call.out.minimize
           /\ call.ret.win.rect = call.window.rect
           /\ call.ret.win.showCmd = "minimized"

\* the Phase 4 placer minimized a normal window for an application saved
\* minimized and maximized nothing, though the other calls would have failed
C26_Witness ==
    /\ call.fn = "MoveWindowWithStateHandling"
    /\ call.app.isMinimized
    /\ call.window.showCmd = "normal"
    /\ call.out = [minimize |-> TRUE, setpos |-> FALSE, maximize |-> FALSE]
    /\ call.ret.ok

\* the monitor a saved position belongs to
MonitorOf(app) == MonitorFromRect(TargetRect(app))

\* C27: the rectangle given to the move-and-resize call is the saved
\* rectangle shifted by minus the offset of the work area in the target
\* monitor, with the saved width and height; on a monitor whose work area
\* is the whole monitor it is the saved rectangle.
C27_WorkAreaTranslation ==
    (PlacerCalled /\ ~call.app.isMinimized /\ call.out.setpos)
        => LET pos == call.app.position
               m == MonitorOf(call.app)
               r == call.ret.win.rect
           IN  /\ r.left = pos.x - (m.rcWork.left - m.rcMonitor.left)
               /\ r.top = pos.y - (m.rcWork.top - m.rcMonitor.top)
               /\ r.right - r.left = pos.width
               /\ r.bottom - r.top = pos.height
               /\ m.rcWork = m.rcMonitor
                     => r = Rect(pos.x, pos.y, pos.x + pos.width, pos.y + pos.height)

\* a window was moved to a position saved on the primary monitor, whose
\* work area starts below and right of the monitor's origin
C27_Witness ==
    /\ PlacerCalled
    /\ ~call.app.isMinimized
    /\ call.out.setpos
    /\ call.app.position = P1
    /\ MonitorOf(call.app) = PrimaryMonitor
    /\ call.ret.win.rect = Rect(92, 60, 892, 660)

\* the applications the launcher is called for: packaged with and without
\* an app-user-model-id, an id without a package, protocol ids, progressive
\* web applications, plain executables, a missing file, elevated with
\* arguments
LaunchApps ==
    {Application("A", PathA, "Pkg.A!App", "Pkg.A_1.0", "", "", "", FALSE, FALSE, FALSE, P1),
     Application("A", PathA, "", "Pkg.A_1.0", "", "", "", FALSE, FALSE, FALSE, P1),
     Application("A", PathA, "Pkg.A!App", "", "", "", "", FALSE, FALSE, FALSE, P1),
     Application("S", PathY, "steam://rungameid/1", "", "", "", "", FALSE, FALSE, FALSE, P1),
     Application("S", PathA, "app!steam:x", "Pkg.S_1.0", "", "", "", FALSE, FALSE, FALSE, P1),
     Application("E", Path("C:\\Edge", "msedge", ".exe"), "edge.pwa.xyz", "", "xyz", "1", "",
                 FALSE, FALSE, FALSE, P1),
     Application("C", Path("C:\\Chrome", "chrome", ".exe"), "", "", "xyz", "0", "",
                 FALSE, FALSE, FALSE, P1),
     AppB, AppY,
     Application("A", PathA, "Pkg.A!App", "Pkg.A_1.0", "", "", "--new", TRUE, FALSE, FALSE, P1)}

\* LaunchAppWithFullLogic(app, launchErrors) is called
CallLaunchAppWithFullLogic ==
    /\ call = NoCall
    /\ \E app \in LaunchApps, launchErrors \in {<<>>, <<<<Filename(PathY), "File not found">>>>} :
          \E env \in LaunchEnvsFor(app) :
             call' = [fn |-> "LaunchAppWithFullLogic", app |-> app, env |-> env,
                      launchErrors |-> launchErrors,
                      ret |-> LaunchAppWithFullLogic(app, launchErrors, env)]
    /\ UNCHANGED <<service, m_processing, m_launchingStatus, m_launchErrors, desktop, pending,
                   nextHwnd, pc, result, loc, nSubmits, minimizeCalls>>

\* the fixed order of the strategies
StrategyOrder == <<"direct", "protocol", "package", "pwa", "exe">>

StrategyRank(name) == CHOOSE k \in 1..Len(StrategyOrder) : StrategyOrder[k] = name

\* what the environment answered to the attempt of a strategy
StrategySucceeded(name, app, env) ==
    CASE name = "direct" ->
            LaunchApp(<<"shell:AppsFolder", app.appUserModelId>>, app.commandLineArgs,
                      app.isElevated, env.direct).success
      [] name = "protocol" ->
            LaunchApp(app.appUserModelId, app.commandLineArgs, app.isElevated,
                      env.protocol).success
      [] name = "package" -> env.package = "launched"
      [] name = "pwa" ->
            LaunchApp(<<"shell:AppsFolder", app.appUserModelId>>, app.commandLineArgs,
                      app.isElevated, env.pwa).success
      [] OTHER ->
            LET st == LaunchStep(FALSE, <<>>, <<>>)
            IN  /\ FileExists(AppPathFinal(app, st))
                /\ LaunchApp(AppPathFinal(app, st), CommandLineArgsFinal(app, st),
                             app.isElevated, env.exe).success

\* C28: the strategies are attempted in the order packaged-direct, protocol,
\* package manager, PWA, executable; every attempt before the last one
\* failed, so nothing is attempted after a success; the launcher returns
\* true exactly when its last attempt succeeded, whatever failed before.
C28_StrategyOrder ==
    call.fn = "LaunchAppWithFullLogic"
        => LET attempts == call.ret.attempts
               n == Len(attempts)
           IN  /\ \A i, j \in 1..n : i < j => StrategyRank(attempts[i]) < StrategyRank(attempts[j])
               /\ \A i \in 1..n : i < n => ~StrategySucceeded(attempts[i], call.app, call.env)
               /\ call.ret.launched <=> (n > 0 /\ StrategySucceeded(attempts[n], call.app, call.env))

\* the package manager launched an application after the direct launch had
\* failed, and neither the PWA nor the executable launch was attempted
C28_Witness ==
    /\ call.fn = "LaunchAppWithFullLogic"
    /\ call.ret.attempts = <<"direct", "package">>
    /\ call.ret.launched
    /\ Len(call.ret.errors) = Len(call.launchErrors) + 1

\* the attempts of the last launcher call that failed
FailedAttempts ==
    {i \in 1..Len(call.ret.attempts) :
        ~StrategySucceeded(call.ret.attempts[i], call.app, call.env)}

\* C29: after a launcher call the number of LaunchErrors added is at least
\* the number of strategies that were attempted and failed, a package
\* manager attempt that finds no package or is refused included.
C29_AsStated ==
    call.fn = "LaunchAppWithFullLogic"
        => Len(call.ret.errors) - Len(call.launchErrors) >= Cardinality(FailedAttempts)

\* the direct launch as the first strategy of the last launcher call
DirectFirst ==
    /\ Len(call.ret.attempts) >= 1
    /\ call.ret.attempts[1] = "direct"

\* C30 as stated: for every application with a non-empty app-user-model-id
\* the first attempt is the packaged-direct launch, whether or not a package
\* full name is present.
C30_AsStated ==
    (call.fn = "LaunchAppWithFullLogic" /\ call.app.appUserModelId # "")
        => DirectFirst

\* C30: the packaged-direct launch is attempted exactly for the applications
\* whose package full name and app-user-model-id are both non-empty; it is
\* then the first attempt, it goes through the shell apps-folder reference
\* with the saved command line and elevation flag, and its success ends the
\* call. With an empty package full name it is not attempted at all.
C30_DirectGuard ==
    call.fn = "LaunchAppWithFullLogic"
        => LET app == call.app
               attempts == call.ret.attempts
               res == LaunchApp(<<"shell:AppsFolder", app.appUserModelId>>,
                                app.commandLineArgs, app.isElevated, call.env.direct)
           IN  /\ DirectFirst <=> (app.packageFullName # "" /\ app.appUserModelId # "")
               /\ \A i \in 1..Len(attempts) : attempts[i] = "direct" => i = 1
               /\ DirectFirst => (res.success <=> (attempts = <<"direct">> /\ call.ret.launched))
               /\ (DirectFirst /\ ~res.success)
                      => call.ret.errors[Len(call.launchErrors) + 1]
                             = <<Filename(app.path), res.error>>

\* an elevated packaged application with arguments was launched directly,
\* by the elevated launch alone
C30_Witness ==
    /\ call.fn = "LaunchAppWithFullLogic"
    /\ call.app.packageFullName # ""
    /\ call.app.appUserModelId # ""
    /\ call.app.isElevated
    /\ call.app.commandLineArgs # ""
    /\ ~call.env.direct.createProcess
    /\ call.ret.attempts = <<"direct">>
    /\ call.ret.launched

\* the most unmanaged windows on a desktop the minimizer is called for
MaxFanWindows == 9

\* a window of another program, not a popup
OtherWindow(hwnd) == Window(hwnd, Path("C:", "Other", ".exe"), "", FALSE, "normal", DefaultRect)

\* desktops with n windows of other programs, alone or behind a window of
\* application A and a system popup
FanDesktops ==
    {[i \in 1..n |-> OtherWindow(i)] : n \in 0..MaxFanWindows}
    \cup {<<Window(1, PathA, "", FALSE, "normal", DefaultRect),
            Window(2, Path("C:", "Other", ".exe"), "", TRUE, "normal", DefaultRect)>>
          \o [i \in 1..n |-> OtherWindow(i + 2)] : n \in 0..MaxFanWindows}

\* MinimizeUnmanagedWindowsParallel(movedWindows) with no moved
\* window, from the filter to the last join; ret.calls[t] are the
\* ShowWindow(SW_FORCEMINIMIZE) calls of worker thread t, in its order
CallMinimizeUnmanagedWindowsParallel ==
    /\ call = NoCall
    /\ \E desk \in FanDesktops, apps \in {<<>>, <<AppA1, AppB>>} :
          LET unmanagedWindows == UnmanagedWindows(desk, <<>>, apps)
              workers == IF Len(unmanagedWindows) = 0
                         THEN <<>>
                         ELSE WorkerRanges(Len(unmanagedWindows))
          IN  call' = [fn |-> "MinimizeUnmanagedWindowsParallel", desk |-> desk, apps |-> apps,
                       ret |-> [workers |-> workers,
                                calls |-> [t \in 1..Len(workers) |->
                                              SubSeq(unmanagedWindows, workers[t].next,
                                                     workers[t].end)]]]
    /\ UNCHANGED <<service, m_processing, m_launchingStatus, m_launchErrors, desktop, pending,
                   nextHwnd, pc, result, loc, nSubmits, minimizeCalls>>

\* the minimize calls window hwnd received in the last minimizer call
MinimizeCallsOn(hwnd) ==
    {<<t, i>> \in (1..Len(call.ret.calls)) \X (1..MaxFanWindows + 2) :
        i <= Len(call.ret.calls[t]) /\ call.ret.calls[t][i] = hwnd}

\* the windows of the last minimizer call that are no popup and match no
\* application of the workspace
UnmanagedOf(desk, apps) ==
    {i \in 1..Len(desk) : ~desk[i].popup /\ ~IsWindowInAppList(desk[i], apps)}

\* C31: every enumerated window that is no system popup and matches no
\* workspace application gets exactly one minimize call and the others get
\* none; min(4, n) workers are started, their index ranges are pairwise
\* disjoint and cover 1..n, the last one takes the remainder; with n = 0 no
\* worker is started.
C31_FanOut ==
    call.fn = "MinimizeUnmanagedWindowsParallel"
        => LET n == Cardinality(UnmanagedOf(call.desk, call.apps))
               workers == call.ret.workers
               Indexes(t) == workers[t].next..workers[t].end
           IN  /\ \A i \in 1..Len(call.desk) :
                     Cardinality(MinimizeCallsOn(call.desk[i].hwnd))
                         = IF i \in UnmanagedOf(call.desk, call.apps) THEN 1 ELSE 0
               /\ Len(workers) = IF n < 4 THEN n ELSE 4
               /\ \A t, u \in 1..Len(workers) : t # u => Indexes(t) \cap Indexes(u) = {}
               /\ UNION {Indexes(t) : t \in 1..Len(workers)} = 1..n
               /\ \A t \in 1..Len(workers) :
                     /\ Cardinality(Indexes(t)) >= n \div Len(workers)
                     /\ t < Len(workers) => Cardinality(Indexes(t)) = n \div Len(workers)

\* seven unmanaged windows behind a protected one and a popup: four workers,
\* the last one minimizes four windows
C31_Witness ==
    /\ call.fn = "MinimizeUnmanagedWindowsParallel"
    /\ Len(call.desk) = 9
    /\ call.apps # <<>>
    /\ Len(call.ret.workers) = 4
    /\ call.ret.calls[4] = <<6, 7, 8, 9>>
    /\ call.ret.calls[1] = <<3>>

\* the windows the three copies of the matching logic are compared on:
\* those of the matcher calls, and each of them as a system popup
CopyWindows ==
    {Window(1, p, u, popup, "normal", DefaultRect) :
        p \in MatchPaths, u \in MatchAumids, popup \in BOOLEAN}

\* applications matched by one rule each, by two, and by none
CopyApps ==
    {Application("A", PathQ, "", "", "", "", "", FALSE, FALSE, FALSE, P1),
     Application("Q", PathA, "", "", "", "", "", FALSE, FALSE, FALSE, P1),
     Application("Q", PathQ, "Pkg.A!App", "", "", "", "", FALSE, FALSE, FALSE, P1),
     Application("Q", PathQ, "", "", "xyz", "", "", FALSE, FALSE, FALSE, P1),
     Application("A", PathA, "", "", "", "", "", FALSE, FALSE, FALSE, P1),
     Application("Q", PathQ, "", "", "", "", "", FALSE, FALSE, FALSE, P1)}

MaxCopyApps == 2

\* IsWindowInAppList(window, workspace, pwaHelper) is called
CallIsWindowInAppList ==
    /\ call = NoCall
    /\ \E w \in CopyWindows, apps \in UNION {[1..n -> CopyApps] : n \in 0..MaxCopyApps} :
          call' = [fn |-> "IsWindowInAppList", window |-> w, apps |-> apps,
                   ret |-> IsWindowInAppList(w, apps)]
    /\ UNCHANGED <<service, m_processing, m_launchingStatus, m_launchErrors, desktop, pending,
                   nextHwnd, pc, result, loc, nSubmits, minimizeCalls>>

\* GetNearestWindow(app, movedWindows, pwaHelper) is called with one window
\* open: it returns a window exactly when that window is a candidate
CallGetNearestWindowOfOne ==
    /\ call = NoCall
    /\ \E w \in CopyWindows, app \in CopyApps, movedWindows \in {<<>>, <<1>>} :
          call' = [fn |-> "GetNearestWindow", desk |-> <<w>>, app |-> app,
                   movedWindows |-> movedWindows,
                   ret |-> GetNearestWindow(app, movedWindows, <<w>>)]
    /\ UNCHANGED <<service, m_processing, m_launchingStatus, m_launchErrors, desktop, pending,
                   nextHwnd, pc, result, loc, nSubmits, minimizeCalls>>

\* C32: the three copies of the matching logic agree. IsWindowInAppList(w,
\* ws) is true iff w is a system popup or IsWindowMatchApp(w, a) holds for
\* some a of ws.apps; the windows GetNearestWindow(a, moved) chooses from
\* are exactly the enumerated windows that are no popups, not in moved and
\* satisfy IsWindowMatchApp(w, a).
C32_CopiesAgree ==
    /\ call.fn = "IsWindowInAppList"
          => (call.ret <=> \/ call.window.popup
                           \/ \E i \in 1..Len(call.apps) :
                                 IsWindowMatchApp(call.window, call.apps[i]))
    /\ call.fn = "GetNearestWindow"
          => LET Chosen(w) == /\ ~w.popup
                              /\ \A k \in 1..Len(call.movedWindows) :
                                    call.movedWindows[k] # w.hwnd
                              /\ IsWindowMatchApp(w, call.app)
             IN  /\ call.ret.found <=> \E i \in 1..Len(call.desk) : Chosen(call.desk[i])
                 /\ call.ret.found
                       => \E i \in 1..Len(call.desk) :
                             call.desk[i].hwnd = call.ret.window /\ Chosen(call.desk[i])
                 /\ \A i \in 1..Len(call.desk) :
                       IsCandidate(call.desk[i], call.app, call.movedWindows)
                           <=> Chosen(call.desk[i])

\* a window is protected by the second of two applications only, through
\* the PWA rule
C32_Witness ==
    /\ call.fn = "IsWindowInAppList"
    /\ call.ret
    /\ ~call.window.popup
    /\ Len(call.apps) = 2
    /\ ~IsWindowMatchApp(call.window, call.apps[1])
    /\ Rule4(call.window, call.apps[2])
    /\ ~Rule1(call.window, call.apps[2])
    /\ ~Rule2(call.window, call.apps[2])
    /\ ~Rule3(call.window, call.apps[2])

UnitNext ==
    \/ CallIsWindowMatchApp
    \/ CallIsWindowInAppList
    \/ CallGetNearestWindowOfOne
    \/ CallMinimizeUnmanagedWindowsParallel
    \/ CallLaunchAppWithFullLogic
    \/ CallMoveWindowToPosition
    \/ CallMoveWindowWithStateHandling
    \/ CallGetNearestWindow
    \/ CallCalculateDistance
    \/ RecallIsWindowMatchApp
    \/ Return
    \/ ContextChanges

\* the service after construction, no window open
UnitInit == Init /\ desktop = <<>>

UnitSpec == UnitInit /\ [][UnitNext]_vars

\* the places of the snapshot of Phase 2 an application may take a window
\* from: not moved yet, matching the application
Phase2Places(c, app) ==
    {j \in 1..Len(loc[c].currentWindows) :
        /\ ~Contains(loc[c].movedWindows, loc[c].currentWindows[j])
        /\ IsWindowMatchApp(WindowOf(desktop, loc[c].currentWindows[j]), app)}

\* C33: Phase 2 takes the applications in workspace order; for each one the
\* placer is called on at most one window, the first of the enumeration
\* that is not in moved and matches; when no window qualifies nothing
\* changes; the window enters moved only when it was placed, and after a
\* failed placement no other window is tried for the application.
C33_Phase2Selection ==
    [][\A c \in Callers :
          (pc[c] = "existing" /\ loc'[c] # loc[c])
              => LET app == loc[c].workspace.apps[loc[c].idx]
                     places == Phase2Places(c, app)
                 IN  /\ loc[c].idx <= Len(loc[c].workspace.apps)
                     /\ loc'[c].idx = loc[c].idx + 1
                     /\ loc'[c].currentWindows = loc[c].currentWindows
                     /\ IF places = {}
                        THEN /\ desktop' = desktop
                             /\ loc'[c].movedWindows = loc[c].movedWindows
                        ELSE LET first == CHOOSE j \in places : \A k \in places : j <= k
                                 hwnd == loc[c].currentWindows[first]
                             IN  /\ \A i \in 1..Len(desktop) :
                                       desktop[i].hwnd # hwnd => desktop'[i] = desktop[i]
                                 /\ Len(desktop') = Len(desktop)
                                 /\ loc'[c].movedWindows
                                       \in {loc[c].movedWindows, Append(loc[c].movedWindows, hwnd)}
                                 /\ (loc'[c].movedWindows = loc[c].movedWindows)
                                       <=> (loc'[c].placedExisting = loc[c].placedExisting)]_vars

\* the placement of the only window of A failed for the first application
\* of the workspace and succeeded for the second one
C33_Witness ==
    \E c \in Callers :
        /\ pc[c] = "existing"
        /\ loc[c].workspace.id = "ws_dup"
        /\ loc[c].idx = 3
        /\ loc[c].currentWindows = <<1, 3, 5>>
        /\ loc[c].movedWindows = <<1>>
        /\ loc[c].placedExisting = <<AppA2>>

\* the workspace with the other value of moveExistingWindows
OtherFlag(workspace) ==
    [workspace EXCEPT !.moveExistingWindows = ~workspace.moveExistingWindows]

ErrorNamesOf(app) ==
    {Filename(app.path), Filename(AppPathFinal(app, LaunchStep(FALSE, <<>>, <<>>))),
     PlainName(app.packageFullName), PlainName(app.appUserModelId)}

\* C35: per-request state is fresh. At the start of Phase 1 the tracker
\* holds exactly the applications of the current workspace, all Waiting and
\* without a window, the moved set is empty and the error list is empty,
\* however an earlier request ended; inside the pipeline every launch error
\* is about an application of the current workspace and every moved window
\* was moved by this request.
C35_FreshState ==
    \A c \in Callers :
        /\ pc[c] = "phase1"
              => /\ m_launchingStatus = NewLaunchingStatus(loc[c].workspace)
                 /\ DOMAIN m_launchingStatus.appsState = Range(loc[c].workspace.apps)
                 /\ \A a \in DOMAIN m_launchingStatus.appsState :
                       /\ m_launchingStatus.appsState[a].state = "Waiting"
                       /\ m_launchingStatus.appsState[a].window = NullHwnd
                 /\ loc[c].movedWindows = <<>>
                 /\ m_launchErrors = <<>>
        /\ (InPipeline(c) /\ pc[c] # "execute")
              => /\ m_launchingStatus.project = loc[c].workspace
                 /\ \A i \in 1..Len(m_launchErrors) :
                       \E a \in Range(loc[c].workspace.apps) :
                          m_launchErrors[i][1] \in ErrorNamesOf(a)
                 /\ Len(m_launchErrors) > 0 => loc[c].launcherCalls > 0
                 /\ \A i \in 1..Len(loc[c].movedWindows) :
                       \E a \in Range(loc[c].workspace.apps) :
                          IsWindowMatchApp(WindowOf(desktop, loc[c].movedWindows[i]), a)

\* a request is at the start of Phase 1 after the request of the other
\* client ended, which had launched an application
C35_Witness ==
    \E c, d \in Callers :
        /\ c # d
        /\ pc[c] = "phase1"
        /\ result[d] \in {"ok", "exception", "unknown"}
        /\ nextHwnd + SumOver(pending, Templates) > FirstNewHwnd
        /\ m_launchingStatus.project.id = "ws_dup"

\* the states the pipeline gives an application
PipelineStates == {"Waiting", "Launched", "LaunchedAndMoved", "Failed"}

\* C36: no application is Canceled in any reachable state: the pipeline
\* never calls Cancel on the tracker, also not when a request ends by an
\* exception, so every application ends a request Waiting, Launched,
\* LaunchedAndMoved or Failed.
C36_NeverCanceled ==
    \A a \in DOMAIN m_launchingStatus.appsState :
        /\ m_launchingStatus.appsState[a].state # "Canceled"
        /\ m_launchingStatus.appsState[a].state \in PipelineStates

\* a request ended by an exception in the launcher with one application
\* launched and one still waiting, the states Cancel would change
C36_Witness ==
    \E c \in Callers :
        /\ pc[c] = "release"
        /\ result[c] \in {"exception", "unknown"}
        /\ \E a, b \in DOMAIN m_launchingStatus.appsState :
              /\ m_launchingStatus.appsState[a].state = "Waiting"
              /\ m_launchingStatus.appsState[b].state = "Launched"
        /\ Cancel(m_launchingStatus) # m_launchingStatus

\* the request thread is scheduled: the loop of Phase 3 keeps running
Phase3Step(c) ==
    Phase3Next(c) \/ Phase3Wait(c) \/ Phase3Settle(c) \/ Phase3Launch(c) \/ Phase3Update(c)

\* one request whose thread keeps running through Phase 3
LaunchFairSpec ==
    /\ Init
    /\ [][OneRequestNext]_vars
    /\ \A c \in Callers : WF_vars(Phase3Step(c))

\* the applications that have left Waiting
LeftWaiting == {a \in DOMAIN m_launchingStatus.appsState :
                   m_launchingStatus.appsState[a].state # "Waiting"}

\* C37: Phase 3 terminates and drains the tracker. Every application
\* GetNext(Waiting) returns is Waiting and has left Waiting when the loop
\* head is reached again, so it is returned at most once; the launcher is
\* invoked at most once per application of the request; when Phase 3 has
\* ended no application is Waiting; and Phase 3 always ends (or the request
\* ends by an exception).
C37_Phase3Drains ==
    /\ \A c \in Callers : (pc[c] = "phase3") ~> (pc[c] \in {"phase4", "release"})
    /\ [][\A c \in Callers :
             (pc[c] = "phase3" /\ loc'[c].app # loc[c].app /\ loc'[c].app # <<>>)
                 => /\ loc'[c].app[1] \in NextInState(m_launchingStatus, "Waiting")
                    /\ Cardinality(LeftWaiting') >= Cardinality(LeftWaiting)]_vars
    /\ [](\A c \in Callers :
             /\ (pc[c] = "phase3" /\ loc[c].app # <<>>) => loc[c].app[1] \in LeftWaiting
             /\ pc[c] = "update" => loc[c].launcherCalls <= Cardinality(LeftWaiting) + 1
             /\ (pc[c] \in {"phase3", "wait", "settle", "launch"})
                   => loc[c].launcherCalls <= Cardinality(LeftWaiting)
             /\ (pc[c] \in {"phase4", "scan", "finish"})
                   => /\ NextInState(m_launchingStatus, "Waiting") = {}
                      /\ loc[c].launcherCalls <= Cardinality(DOMAIN m_launchingStatus.appsState))

\* Phase 3 ended after two launcher calls, one of which failed, with no
\* application left Waiting
C37_Witness ==
    \E c \in Callers :
        /\ pc[c] = "phase4"
        /\ loc[c].launcherCalls = 2
        /\ NextInState(m_launchingStatus, "Waiting") = {}
        /\ NextInState(m_launchingStatus, "Failed") # {}
        /\ NextInState(m_launchingStatus, "Launched") # {}

\* C38: while Phase 3 is in its sequencing wait (and the settle sleep after
\* it) no application's tracker state changes; once the wait has slept for
\* the first time its condition stays as it was, so the loop is left only
\* when 2000 ms were waited, and the 500 ms settle sleep follows.
C38_WaitRunsToLimit ==
    [][\A c \in Callers :
          /\ pc[c] \in {"wait", "settle"} => m_launchingStatus' = m_launchingStatus
          /\ (pc[c] = "wait" /\ loc[c].additionalWait)
                => ~AllInstancesOfTheAppLaunchedAndMoved(m_launchingStatus, loc[c].app[1])
          /\ (pc[c] = "wait" /\ loc[c].additionalWait /\ pc'[c] # "wait")
                => /\ loc[c].waitingTime = LaunchMaxWaitTimeMs
                   /\ PollsTaken(c) = LaunchMaxWaitTimeMs \div LaunchPollIntervalMs
                   /\ pc'[c] = "settle"
          /\ (pc[c] = "settle" /\ pc'[c] # "settle") => pc'[c] = "launch"]_vars

\* the settle sleep after a wait that reached the limit, for the second
\* application of a request
C38_Witness ==
    \E c \in Callers :
        /\ pc[c] = "settle"
        /\ loc[c].waitingTime = LaunchMaxWaitTimeMs
        /\ loc[c].launcherCalls = 1
        /\ NextInState(m_launchingStatus, "Launched") # {}

\* the other instances of the application of app that were started earlier
\* in the request: the entries of the same program that left Waiting
EarlierInstances(app) ==
    {a \in DOMAIN m_launchingStatus.appsState :
        /\ a # app
        /\ a.path = app.path \/ a.name = app.name
        /\ m_launchingStatus.appsState[a].state # "Waiting"}

\* C39 as stated: an application for which no other instance of the same
\* application was started earlier in the request is launched without any
\* sequencing wait and without the settle sleep.
C39_AsStated ==
    \A c \in Callers :
        (pc[c] \in {"wait", "settle", "launch"} /\ EarlierInstances(loc[c].app[1]) = {})
            => /\ loc[c].waitingTime = 0
               /\ ~loc[c].additionalWait
               /\ pc[c] # "settle"

(***************************************************************************)
(* Start and Stop of the service, under m_serviceMutex.                    *)
(***************************************************************************)
\* a Stop that also clears the single-flight latch
StopEffect_ClearsLatch(s, latch) ==
    IF ~s.m_enabled
    THEN [service |-> s, latch |-> latch]
    ELSE [service |-> [m_enabled |-> FALSE, m_shouldStop |-> TRUE, m_ipcHelper |-> FALSE],
          latch |-> FALSE]

\* Start(): nothing when already started; otherwise the IPC helper is
\* created (its constructor may throw, and then nothing was assigned) and
\* the flags are set
StartEffect(s, helperOk) ==
    IF s.m_enabled \/ ~helperOk
    THEN s
    ELSE [m_enabled |-> TRUE, m_shouldStop |-> FALSE, m_ipcHelper |-> TRUE]

\* Stop(): nothing when not started; otherwise the flags are set and the IPC
\* helper is reset; the latch is not written
StopEffect(s, latch) ==
    IF ~s.m_enabled
    THEN [service |-> s, latch |-> latch]
    ELSE [service |-> [m_enabled |-> FALSE, m_shouldStop |-> TRUE, m_ipcHelper |-> FALSE],
          latch |-> latch]

Start ==
    /\ \E helperOk \in BOOLEAN :
          /\ service' = StartEffect(service, helperOk)
          /\ call' = [fn |-> "Start", was |-> service, helperOk |-> helperOk]
    /\ UNCHANGED <<m_processing, m_launchingStatus, m_launchErrors, desktop, pending,
                   nextHwnd, pc, result, loc, nSubmits, minimizeCalls>>

Stop ==
    /\ LET stopped == StopEffect(service, m_processing)
       IN  /\ service' = stopped.service
           /\ m_processing' = stopped.latch
    /\ call' = [fn |-> "Stop", was |-> service, helperOk |-> TRUE]
    /\ UNCHANGED <<m_launchingStatus, m_launchErrors, desktop, pending,
                   nextHwnd, pc, result, loc, nSubmits, minimizeCalls>>

\* the service is started and stopped while one request is received through
\* the IPC helper and runs
ServiceNext ==
    \/ Start
    \/ Stop
    \/ \E c \in Callers : service.m_ipcHelper /\ (nSubmits = 0 \/ m_processing) /\ Submit(c)
    \/ \E c \in Callers : ProcessWorkspace(c)
    \/ \E c \in Callers : ExecuteWorkspaceSequence(c)
    \/ \E c \in Callers : Phase1Filter(c)
    \/ \E c \in Callers : \E t \in 1..MaxThreads : Worker(c, t)
    \/ \E c \in Callers : Join(c)
    \/ \E c \in Callers : Phase2Enumerate(c)
    \/ \E c \in Callers : Phase2App(c)
    \/ \E c \in Callers : Phase2Return(c)
    \/ \E c \in Callers : Phase3Next(c)
    \/ \E c \in Callers : Phase3Wait(c)
    \/ \E c \in Callers : Phase3Settle(c)
    \/ \E c \in Callers : Phase3Launch(c)
    \/ \E c \in Callers : Phase3Update(c)
    \/ \E c \in Callers : Phase4Head(c)
    \/ \E c \in Callers : Phase4App(c)
    \/ \E c \in Callers : Phase4Sleep(c)
    \/ \E c \in Callers : Finish(c)
    \/ \E c \in Callers : Throw(c)
    \/ \E c \in Callers : Release(c)
    \/ \E t \in Templates : WindowAppears(t)

ServiceSpec == Init /\ [][ServiceNext]_vars

\* C40: Start and Stop form an idempotent two-state machine. Start on a
\* started service and Stop on a stopped one change nothing; m_enabled holds
\* iff the IPC helper exists; once a call has taken effect m_shouldStop is
\* the negation of m_enabled; Stop writes neither the single-flight latch
\* nor any per-request state.
C40_StartStop ==
    /\ [](/\ service.m_enabled <=> service.m_ipcHelper
          /\ service # ServiceConstructed => service.m_shouldStop = ~service.m_enabled
          /\ (call.fn = "Start" /\ call.was.m_enabled) => service = call.was
          /\ (call.fn = "Stop" /\ ~call.was.m_enabled) => service = call.was
          /\ (call.fn = "Start" /\ ~call.was.m_enabled /\ call.helperOk) => service.m_enabled
          /\ (call.fn = "Stop" /\ call.was.m_enabled) => ~service.m_enabled)
    /\ [][service' # service
             => /\ service'.m_enabled = ~service.m_enabled
                /\ UNCHANGED <<m_processing, m_launchingStatus, m_launchErrors, desktop,
                               pending, nextHwnd, pc, result, loc, nSubmits,
                               minimizeCalls>>]_vars

\* the service was stopped while a request was in its launch phase: the
\* latch is still held and the tracker is in use
C40_Witness ==
    /\ call.fn = "Stop"
    /\ call.was.m_enabled
    /\ ~service.m_enabled
    /\ service.m_shouldStop
    /\ m_processing
    /\ \E c \in Callers : pc[c] = "launch"
    /\ NextInState(m_launchingStatus, "Launched") # {}

====
